---- MODULE Spec2Model ----
(***************************************************************************)
(* A model of oamap's schema type system (src/oamap/schema.py) and of the  *)
(* overlay source of the operation algebra (src/oamap/operations.py).      *)
(*                                                                         *)
(* Schema objects live in a heap: a sequence of node records whose index   *)
(* is the object's identity (Python's id()).  A child slot holds the       *)
(* identity of the child, 0 for None (a Pointer without a target).         *)
(* Every node is built with the constructor's defaults for the buffer      *)
(* names, packing, name and doc (all None), so the model keeps only the    *)
(* attributes the schema calls can change: kind, nullable and children.    *)
(* The buffer names and the namespace that _DualSource.put assigns to a    *)
(* node are kept apart, in attrs; source is the _DualSource in use; data   *)
(* is the proxy an operation is applied to: the arrays of its source and   *)
(* the nodes of its schema that the operation's path resolves to.          *)
(***************************************************************************)
EXTENDS Integers, Sequences, FiniteSets, TLC

VARIABLES heap, ncalls, call, source, attrs, data, futures, clock, combiner

vars == <<heap, ncalls, call, source, attrs, data, futures, clock, combiner>>

(***************************************************************************)
(* Bounds.                                                                 *)
(***************************************************************************)
\* constructor and setter calls made while a schema is being built
MaxCalls == 4

\* futures supplied to a combiner
MaxFutures == 3

\* ticks of the wall clock within a run
MaxClock == 3

\* recastings applied one after the other
MaxRecasts == 2

\* nesting depth of a JSON document received from outside
MaxJsonDepth == 2

\* length of a delimiter string
MaxDelimLen == 2

\* array names an overlay source hands out, and arrays it holds
MaxArrays == 3

\* slots of a list
MaxSlots == 2

\* positions of a list's content
MaxItems == 3

NoneId == 0

Kinds == {"Primitive", "List", "Union", "Record", "Tuple", "Pointer"}

Node(kind, nullable, kids) == [kind |-> kind, nullable |-> nullable, kids |-> kids]

Ids(h) == 1 .. Len(h)

NoCall == [op |-> "none"]

(***************************************************************************)
(* Structural equality, __eq__ of each kind.  The memo is the dict         *)
(* id(self) -> id(other) that the calls share and mutate; a result is the  *)
(* pair of the returned value and the memo as the call leaves it.          *)
(* "True"/"False" are the returned booleans, "Error" an exception (the     *)
(* attribute lookup self.target.__eq__ on a target that is None).          *)
(***************************************************************************)
Ret(res, memo) == [res |-> res, memo |-> memo]

Bool(b) == IF b THEN "True" ELSE "False"

RECURSIVE SchemaEq(_, _, _, _)
RECURSIVE AllEq(_, _, _, _, _)

\* all(x.__eq__(y, memo) for x, y in zip(xs, ys)): left to right, stopping at
\* the first False, an exception propagating.
AllEq(h, xs, ys, i, memo) ==
  IF i > Len(xs) \/ i > Len(ys) THEN Ret("True", memo)
  ELSE LET r == SchemaEq(h, xs[i], ys[i], memo)
       IN IF r.res = "True" THEN AllEq(h, xs, ys, i + 1, r.memo) ELSE r

PrimitiveEq(h, a, b, memo) ==
  Ret(Bool(b # NoneId /\ h[b].kind = "Primitive" /\ h[a].nullable = h[b].nullable), memo)

ListEq(h, a, b, memo) ==
  IF a \in DOMAIN memo THEN Ret(Bool(memo[a] = b), memo)
  ELSE IF ~(b # NoneId /\ h[b].kind = "List") THEN Ret("False", memo)
  ELSE AllEq(h, h[a].kids, h[b].kids, 1, (a :> b) @@ memo)

UnionEq(h, a, b, memo) ==
  IF a \in DOMAIN memo THEN Ret(Bool(memo[a] = b), memo)
  ELSE IF ~(b # NoneId /\ h[b].kind = "Union" /\ Len(h[a].kids) = Len(h[b].kids)
            /\ h[a].nullable = h[b].nullable) THEN Ret("False", memo)
  ELSE AllEq(h, h[a].kids, h[b].kids, 1, (a :> b) @@ memo)

RecordEq(h, a, b, memo) ==
  IF a \in DOMAIN memo THEN Ret(Bool(memo[a] = b), memo)
  ELSE IF ~(b # NoneId /\ h[b].kind = "Record" /\ Len(h[a].kids) = Len(h[b].kids)
            /\ h[a].nullable = h[b].nullable) THEN Ret("False", memo)
  ELSE AllEq(h, h[a].kids, h[b].kids, 1, (a :> b) @@ memo)

TupleEq(h, a, b, memo) ==
  IF a \in DOMAIN memo THEN Ret(Bool(memo[a] = b), memo)
  ELSE IF ~(b # NoneId /\ h[b].kind = "Tuple" /\ Len(h[a].kids) = Len(h[b].kids)
            /\ h[a].nullable = h[b].nullable) THEN Ret("False", memo)
  ELSE AllEq(h, h[a].kids, h[b].kids, 1, (a :> b) @@ memo)

\* mutant: a Pointer met again is taken to differ
PointerEqRepeatDiffers(h, a, b, memo) ==
  IF a \in DOMAIN memo THEN Ret("False", memo)
  ELSE IF ~(b # NoneId /\ h[b].kind = "Pointer" /\ h[a].nullable = h[b].nullable)
       THEN Ret("False", memo)
  ELSE AllEq(h, h[a].kids, h[b].kids, 1, (a :> b) @@ memo)

PointerEq(h, a, b, memo) ==
  IF a \in DOMAIN memo THEN Ret(Bool(memo[a] = b), memo)
  ELSE IF ~(b # NoneId /\ h[b].kind = "Pointer" /\ h[a].nullable = h[b].nullable)
       THEN Ret("False", memo)
  ELSE AllEq(h, h[a].kids, h[b].kids, 1, (a :> b) @@ memo)

\* x.__eq__(y, memo): Python dispatches on the class of x; None has no such
\* method.
SchemaEq(h, a, b, memo) ==
  IF a = NoneId THEN Ret("Error", memo)
  ELSE CASE h[a].kind = "Primitive" -> PrimitiveEq(h, a, b, memo)
         [] h[a].kind = "List"      -> ListEq(h, a, b, memo)
         [] h[a].kind = "Union"     -> UnionEq(h, a, b, memo)
         [] h[a].kind = "Record"    -> RecordEq(h, a, b, memo)
         [] h[a].kind = "Tuple"     -> TupleEq(h, a, b, memo)
         [] h[a].kind = "Pointer"   -> PointerEq(h, a, b, memo)

EmptyMemo == [x \in {} |-> 0]

\* a == b
Eq(h, a, b) == SchemaEq(h, a, b, EmptyMemo).res

(***************************************************************************)
(* JSON documents.  A document is a back-reference string "#k" (JRef), a   *)
(* bare dtype string (JStr) or a dict (JDict) with its "type", its         *)
(* children, its "nullable" entry (absent reads as False) and its "label"  *)
(* entry "#k" (NoLabel when the key is absent).                            *)
(***************************************************************************)
NoLabel == -1

JRef(k) == [t |-> "ref", type |-> "", kids |-> <<>>, nullable |-> FALSE, label |-> k]

JStr == [t |-> "str", type |-> "", kids |-> <<>>, nullable |-> FALSE, label |-> NoLabel]

JDict(type, kids, nullable, label) ==
  [t |-> "dict", type |-> type, kids |-> kids, nullable |-> nullable, label |-> label]

\* the "type" entry each kind writes, and the kind each "type" entry builds
TypeName(kind) ==
  CASE kind = "Primitive" -> "primitive"
    [] kind = "List"      -> "list"
    [] kind = "Union"     -> "union"
    [] kind = "Record"    -> "record"
    [] kind = "Tuple"     -> "tuple"
    [] kind = "Pointer"   -> "pointer"

KindOf(type) ==
  CASE type = "primitive" -> "Primitive"
    [] type = "list"      -> "List"
    [] type = "union"     -> "Union"
    [] type = "record"    -> "Record"
    [] type = "tuple"     -> "Tuple"
    [] type = "pointer"   -> "Pointer"

(***************************************************************************)
(* Schema.tojson: _labels, _label and _tojson of each kind.                *)
(***************************************************************************)
RECURSIVE CollectLabels(_, _, _)
RECURSIVE CollectKids(_, _, _, _)

CollectKids(h, kids, i, st) ==
  IF i > Len(kids) \/ st.err THEN st
  ELSE CollectKids(h, kids, i + 1, CollectLabels(h, kids[i], st))

\* _collectlabels: a node met again is appended to labels
CollectLabels(h, n, st) ==
  IF n = NoneId THEN [st EXCEPT !.err = TRUE]
  ELSE IF n \notin st.collection
    THEN CollectKids(h, h[n].kids, 1, [st EXCEPT !.collection = @ \cup {n}])
    ELSE [st EXCEPT !.labels = Append(@, n)]

Labels(h, n) == CollectLabels(h, n, [collection |-> {}, labels |-> <<>>, err |-> FALSE])

\* _label: the index of the node's first entry in labels, None without one
Label(labels, n) ==
  LET at == {i \in DOMAIN labels : labels[i] = n}
  IN IF at = {} THEN NoLabel
     ELSE (CHOOSE i \in at : \A j \in at : i <= j) - 1

\* Primitive._tojson: a Primitive that carries nothing but its dtype is written
\* as the bare dtype string
PrimitiveToJson(h, n, label) ==
  IF h[n].nullable = FALSE THEN JStr
  ELSE JDict("primitive", <<>>, h[n].nullable, label)

RECURSIVE ToJsonRec(_, _, _, _)
RECURSIVE ToJsonKids(_, _, _, _, _, _)

\* [x._tojson(explicit, labels, shown) for x in kids]
ToJsonKids(h, kids, i, labels, shown, acc) ==
  IF i > Len(kids) THEN [json |-> acc, shown |-> shown]
  ELSE LET r == ToJsonRec(h, kids[i], labels, shown)
       IN ToJsonKids(h, kids, i + 1, labels, r.shown, Append(acc, r.json))

\* _tojson with explicit=False
ToJsonRec(h, n, labels, shown) ==
  LET label == Label(labels, n)
  IN IF label = NoLabel \/ n \notin shown
       THEN IF h[n].kind = "Primitive"
              THEN [json |-> PrimitiveToJson(h, n, label), shown |-> shown \cup {n}]
              ELSE LET r == ToJsonKids(h, h[n].kids, 1, labels, shown \cup {n}, <<>>)
                   IN [json |-> JDict(TypeName(h[n].kind), r.json, h[n].nullable, label),
                       shown |-> r.shown]
       ELSE [json |-> JRef(label), shown |-> shown]

\* Schema.tojson: the document, or the exception of a Pointer without target
ToJson(h, n) ==
  LET ls == Labels(h, n)
  IN IF ls.err THEN [status |-> "AttributeError", json |-> JStr]
     ELSE [status |-> "ok", json |-> ToJsonRec(h, n, ls.labels, {}).json]

(***************************************************************************)
(* Schema.fromjson.  Phase one (_fromjson) builds the nodes and leaves a   *)
(* back-reference "#k" in the child slot, here the negative number         *)
(* Placeholder(k); phase two (_finalizefromjson) replaces the placeholders *)
(* by the labelled nodes.                                                  *)
(***************************************************************************)
Placeholder(k) == 0 - (k + 1)

IsPlaceholder(v) == v < 0

LabelIn(v) == (0 - v) - 1

RECURSIVE FromJsonRec(_, _)
RECURSIVE FromJsonKids(_, _, _, _)

\* [Schema._fromjson(x, labels) for x in kids]
FromJsonKids(kids, i, st, acc) ==
  IF i > Len(kids) THEN [st |-> st, val |-> acc]
  ELSE LET r == FromJsonRec(kids[i], st)
       IN FromJsonKids(kids, i + 1, r.st, Append(acc, r.val))

\* Schema._fromjson and the _fromjson of each kind: the node is built around
\* its parsed children and then registered under its label
FromJsonRec(j, st) ==
  IF j.t = "ref" THEN [st |-> st, val |-> Placeholder(j.label)]
  ELSE IF j.t = "str"
    THEN [st |-> [st EXCEPT !.heap = Append(@, Node("Primitive", FALSE, <<>>))],
          val |-> Len(st.heap) + 1]
  ELSE LET r    == FromJsonKids(j.kids, 1, st, <<>>)
           id   == Len(r.st.heap) + 1
           h2   == Append(r.st.heap, Node(KindOf(j.type), j.nullable, r.val))
           lab2 == IF j.label = NoLabel THEN r.st.labels
                   ELSE (j.label :> id) @@ r.st.labels
       IN [st |-> [heap |-> h2, labels |-> lab2], val |-> id]

RECURSIVE FinalizeFromJson(_, _, _)
RECURSIVE FinalizeSlots(_, _, _, _)

\* the loop over the child slots of node n
FinalizeSlots(st, labels, n, i) ==
  IF st.err \/ i > Len(st.heap[n].kids) THEN st
  ELSE LET v == st.heap[n].kids[i]
       IN IF IsPlaceholder(v)
            THEN IF LabelIn(v) \notin DOMAIN labels
                   THEN [st EXCEPT !.err = TRUE]
                   ELSE FinalizeSlots([st EXCEPT !.heap[n].kids[i] = labels[LabelIn(v)]],
                                      labels, n, i + 1)
            ELSE FinalizeSlots(FinalizeFromJson(st, labels, v), labels, n, i + 1)

\* _finalizefromjson of each kind (Primitive: pass)
FinalizeFromJson(st, labels, n) ==
  IF st.heap[n].kind = "Primitive" THEN st
  ELSE FinalizeSlots(st, labels, n, 1)

\* Schema.fromjson(data), the new nodes allocated after those of h
FromJson(h, j) ==
  LET r == FromJsonRec(j, [heap |-> h, labels |-> [x \in {} |-> 0]])
  IN IF IsPlaceholder(r.val)
       THEN [status |-> "TypeError", heap |-> h, root |-> NoneId]
       ELSE LET f == FinalizeFromJson([heap |-> r.st.heap, err |-> FALSE], r.st.labels, r.val)
            IN IF f.err THEN [status |-> "TypeError", heap |-> h, root |-> NoneId]
               ELSE [status |-> "ok", heap |-> f.heap, root |-> r.val]

(***************************************************************************)
(* Schema.generator: the compile of a schema into generators.              *)
(*                                                                         *)
(* gens is the sequence of generator objects created so far.  A Pointer    *)
(* generator starts with the placeholder (target schema, prefix,           *)
(* delimiter) as its target (link "placeholder", target = the schema) and  *)
(* ends, once finalized, with a target generator (link "internal" or       *)
(* "external", target = the generator).  memo is the OrderedDict from      *)
(* id(schema) to the generator built for it, in insertion order.  No       *)
(* extension matches a node without a name, so cls is the plain class;     *)
(* the generator class of a nullable Pointer is a PointerGenerator too.    *)
(***************************************************************************)
NoGen == 0

Gen(schema, kind, kids, link, target) ==
  [schema |-> schema, kind |-> kind, kids |-> kids, link |-> link, target |-> target]

MemoHas(memo, id) == \E i \in DOMAIN memo : memo[i].key = id

MemoGet(memo, id) == memo[CHOOSE i \in DOMAIN memo : memo[i].key = id].val

\* memo[id] = g: a key already present keeps its place
MemoPut(memo, id, g) ==
  IF MemoHas(memo, id)
    THEN [i \in DOMAIN memo |-> IF memo[i].key = id THEN [key |-> id, val |-> g] ELSE memo[i]]
    ELSE Append(memo, [key |-> id, val |-> g])

\* the delimiter, a string, as the sequence of its characters; Chars samples
\* the characters of and outside the class [a-zA-Z_0-9]
Chars == {"a", "Z", "_", "0", "-", "/"}

InBadClass(c) == c \in {"a", "Z", "_", "0"}

\* _baddelimiter.match(delimiter) is not None: re.match looks for the class
\* at the beginning of the string
BadDelimiterMatch(d) == Len(d) > 0 /\ InBadClass(d[1])

DefaultDelimiter == <<"-">>

\* cache slots of the kind's own roles, besides the mask
RoleSlots(kind) ==
  CASE kind = "Primitive" -> 1
    [] kind = "List"      -> 2
    [] kind = "Union"     -> 2
    [] kind = "Record"    -> 0
    [] kind = "Tuple"     -> 0
    [] kind = "Pointer"   -> 1

MaskSlots(nullable) == IF nullable THEN 1 ELSE 0

Raise(st, err) == [st EXCEPT !.err = err]

\* memo[id(self)] = cls(*args)
Register(st, n, g) ==
  [st EXCEPT !.gens = Append(@, g), !.memo = MemoPut(@, n, Len(st.gens) + 1)]

RECURSIVE GeneratorRec(_, _, _, _)
RECURSIVE GeneratorKids(_, _, _, _, _, _)

\* the children compiled in order, an exception ending the loop
GeneratorKids(h, kids, i, nesting, st, acc) ==
  IF st.err # "" \/ i > Len(kids) THEN [st |-> st, val |-> acc]
  ELSE LET r == GeneratorRec(h, kids[i], nesting, st)
       IN GeneratorKids(h, kids, i + 1, nesting, r.st, Append(acc, r.val))

\* Pointer._generator: the target is not compiled, a placeholder is kept
PointerGenerator(h, n, st) ==
  IF h[n].kids[1] = NoneId THEN [st |-> Raise(st, "NoTarget"), val |-> NoGen]
  ELSE [st |-> Register([st EXCEPT !.cacheidx = @ + MaskSlots(h[n].nullable) + 1], n,
                        Gen(n, "Pointer", <<>>, "placeholder", h[n].kids[1])),
        val |-> Len(st.gens) + 1]

\* _generator of Primitive, List, Union, Record and Tuple
NestedGenerator(h, n, nesting, st) ==
  IF h[n].kind \in {"Record", "Tuple"} /\ Len(h[n].kids) = 0
    THEN [st |-> Raise(st, "NoFields"), val |-> NoGen]
  ELSE IF n \in nesting
    THEN [st |-> Raise(st, "SelfDefined"), val |-> NoGen]
  ELSE LET st1 == [st EXCEPT !.cacheidx = @ + MaskSlots(h[n].nullable) + RoleSlots(h[n].kind)]
           r   == GeneratorKids(h, h[n].kids, 1, nesting \cup {n}, st1, <<>>)
       IN IF r.st.err # "" THEN [st |-> r.st, val |-> NoGen]
          ELSE [st |-> Register(r.st, n, Gen(n, h[n].kind, r.val, "none", NoGen)),
                val |-> Len(r.st.gens) + 1]

GeneratorRec(h, n, nesting, st) ==
  IF h[n].kind = "Pointer" THEN PointerGenerator(h, n, st)
  ELSE NestedGenerator(h, n, nesting, st)

(***************************************************************************)
(* _finalizegenerator.  An external target is compiled with a memo of its  *)
(* own and finalized in turn, inside the loop of the enclosing finalize.   *)
(* active holds the roots whose compile is under way.  A compile starts    *)
(* from an empty memo and an empty nesting and reads only the schema, so   *)
(* the compile of a root inside the compile of the same root runs as the   *)
(* outer one did and starts that compile again: the recursion has no       *)
(* end, and Python ends it with RecursionError.  Without such a repeat     *)
(* the depth is at most the number of nodes.                               *)
(***************************************************************************)
RECURSIVE Compile(_, _, _, _, _)
RECURSIVE FinalizeLoop(_, _, _, _, _)

\* for generator in memo.values(): ...
FinalizeLoop(h, st, memo, i, active) ==
  IF st.err # "" \/ i > Len(memo) THEN st
  ELSE LET g   == memo[i].val
           gen == st.gens[g]
       IN IF gen.kind # "Pointer" THEN FinalizeLoop(h, st, memo, i + 1, active)
          ELSE IF MemoHas(memo, gen.target)
            THEN FinalizeLoop(h,
                   [st EXCEPT !.gens[g].link = "internal",
                              !.gens[g].target = MemoGet(memo, gen.target)],
                   memo, i + 1, active)
          ELSE IF gen.target \in active THEN Raise(st, "RecursionError")
          ELSE LET r == Compile(h, gen.target, st.gens, st.cacheidx, active \cup {gen.target})
               IN IF r.err # "" THEN [st EXCEPT !.err = r.err, !.gens = r.gens]
                  ELSE FinalizeLoop(h,
                         [st EXCEPT !.gens = [r.gens EXCEPT ![g].link = "external",
                                                            ![g].target = r.out],
                                    !.cacheidx = r.cacheidx],
                         memo, i + 1, active)

\* root._finalizegenerator(root._generator(prefix, delimiter, cacheidx, memo,
\* set(), extension), cacheidx, memo, extension) with a new memo
Compile(h, root, gens, cacheidx, active) ==
  LET r == GeneratorRec(h, root, {},
                        [gens |-> gens, memo |-> <<>>, cacheidx |-> cacheidx, err |-> ""])
  IN IF r.st.err # ""
       THEN [err |-> r.st.err, gens |-> r.st.gens, cacheidx |-> r.st.cacheidx, out |-> NoGen]
       ELSE LET f == FinalizeLoop(h, r.st, r.st.memo, 1, active)
            IN [err |-> f.err, gens |-> f.gens, cacheidx |-> f.cacheidx,
                out |-> IF f.err = "" THEN r.val ELSE NoGen]

\* Schema.generator(prefix, delimiter)
Generator(h, root, delimiter) ==
  IF BadDelimiterMatch(delimiter)
    THEN [err |-> "ValueError", gens |-> <<>>, cacheidx |-> 0, out |-> NoGen]
    ELSE Compile(h, root, <<>>, 0, {root})

(***************************************************************************)
(* _DualSource: the old source wrapped, the new arrays in a dict of its    *)
(* own.  A name is an integer: k stands for "array-" + str(k), OtherName   *)
(* for a name of another form; NoName is None.  A namespace i stands for   *)
(* "namespace-" + str(i), DefaultNamespace for "".  An array is named by   *)
(* where it came from: "old", or the argument of put that carried it.      *)
(***************************************************************************)
OtherName == -1

NoName == -2

DefaultNamespace == -1

EmptyDict == [k \in {} |-> "old"]

NoSource == [state |-> "none"]

\* no data bound to the schema
NoData == [state |-> "none"]

\* the buffer names and the namespace of a node as its constructor leaves them
NoAttrs ==
  [data |-> NoName, mask |-> NoName, starts |-> NoName, stops |-> NoName,
   tags |-> NoName, offsets |-> NoName, positions |-> NoName,
   namespace |-> DefaultNamespace]

\* the first "namespace-i" that is not in oldns
Namespace(oldns) ==
  CHOOSE i \in 0 .. Cardinality(oldns) :
    i \notin oldns /\ \A j \in 0 .. (i - 1) : j \in oldns

DualSource(old, oldns) ==
  [old |-> old, new |-> EmptyDict, namespace |-> Namespace(oldns), arraynum |-> 0]

\* arrayname(): the first "array-k", k from _arraynum on, that is not a key
\* of new; _arraynum ends one past it
ArrayName(src) ==
  LET k == CHOOSE i \in src.arraynum .. (src.arraynum + Cardinality(DOMAIN src.new)) :
             /\ i \notin DOMAIN src.new
             /\ \A j \in src.arraynum .. (i - 1) : j \in DOMAIN src.new
  IN [name |-> k, src |-> [src EXCEPT !.arraynum = k + 1]]

Role(name, namespace, role) == [name |-> name, namespace |-> namespace, role |-> role]

\* str(role): the name the role was made with
RoleStr(role) == role.name

Item(role, array) == [role |-> role, array |-> array]

RECURSIVE Store(_, _, _)
\* for n, x in roles2arrays.items(): d[str(n)] = x
Store(d, roles2arrays, i) ==
  IF i > Len(roles2arrays) THEN d
  ELSE LET k == RoleStr(roles2arrays[i].role)
       IN Store([j \in DOMAIN d \cup {k} |-> IF j = k THEN roles2arrays[i].array ELSE d[j]],
                roles2arrays, i + 1)

\* a putall that writes through to the wrapped source
PutAllIntoOld(src, roles2arrays) == [src EXCEPT !.old = Store(src.old, roles2arrays, 1)]

\* putall(roles2arrays); new is a dict, which has no putall of its own
PutAll(src, roles2arrays) == [src EXCEPT !.new = Store(src.new, roles2arrays, 1)]

\* the branch of put for the node's kind: Record and Tuple bind nothing, not
\* even the local roles2arrays
PutKind(src, at, h, n, arrays) ==
  LET ns == src.namespace
      a1 == ArrayName(src)
      a2 == ArrayName(a1.src)
      kind == h[n].kind
  IN CASE kind = "Primitive" ->
            [bound |-> TRUE, src |-> a1.src,
             roles2arrays |-> <<Item(Role(a1.name, ns, "data"), arrays[1])>>,
             attrs |-> [at EXCEPT ![n].data = a1.name]]
       [] kind = "List" ->
            [bound |-> TRUE, src |-> a2.src,
             roles2arrays |-> <<Item(Role(a1.name, ns, "starts"), arrays[1]),
                                Item(Role(a2.name, ns, "stops"), arrays[2])>>,
             attrs |-> [at EXCEPT ![n].starts = a1.name, ![n].stops = a2.name]]
       [] kind = "Union" ->
            [bound |-> TRUE, src |-> a2.src,
             roles2arrays |-> <<Item(Role(a1.name, ns, "tags"), arrays[1]),
                                Item(Role(a2.name, ns, "offsets"), arrays[2])>>,
             attrs |-> [at EXCEPT ![n].tags = a1.name, ![n].offsets = a2.name]]
       [] kind \in {"Record", "Tuple"} ->
            [bound |-> FALSE, src |-> src, roles2arrays |-> <<>>, attrs |-> at]
       [] kind = "Pointer" ->
            [bound |-> TRUE, src |-> a1.src,
             roles2arrays |-> <<Item(Role(a1.name, ns, "positions"), arrays[1])>>,
             attrs |-> [at EXCEPT ![n].positions = a1.name]]

\* put(schemanode, *arrays).  Reading the unbound local raises
\* UnboundLocalError: for a nullable node in the arguments of MaskRole, after
\* arrayname() has run; otherwise in the call of putall, after the node's
\* namespace has been set.
Put(src, at, h, n, arrays) ==
  LET k == PutKind(src, at, h, n, arrays)
      m == ArrayName(k.src)
  IN IF h[n].nullable
       THEN IF ~k.bound
              THEN [status |-> "UnboundLocalError", source |-> m.src, attrs |-> k.attrs]
              ELSE [status |-> "ok",
                    source |-> PutAll(m.src,
                                 Append(k.roles2arrays,
                                        Item(Role(m.name, src.namespace, "mask"),
                                             arrays[Len(arrays)]))),
                    attrs |-> [k.attrs EXCEPT ![n].mask = m.name,
                                              ![n].namespace = src.namespace]]
       ELSE IF ~k.bound
              THEN [status |-> "UnboundLocalError", source |-> k.src,
                    attrs |-> [k.attrs EXCEPT ![n].namespace = src.namespace]]
              ELSE [status |-> "ok",
                    source |-> PutAll(k.src, k.roles2arrays),
                    attrs |-> [k.attrs EXCEPT ![n].namespace = src.namespace]]

(***************************************************************************)
(* Building schemas: the constructors and the property setters.            *)
(***************************************************************************)
\* A run builds a schema and then applies one operation to it; a call that
\* raises ends the run as well.
Idle == call = NoCall

CanCall == Idle /\ ncalls < MaxCalls

Alloc(node) ==
  /\ CanCall
  /\ heap' = Append(heap, node)
  /\ ncalls' = ncalls + 1
  /\ UNCHANGED <<source, attrs, data, futures, clock, combiner>>
  /\ call' = NoCall

NewPrimitive == Alloc(Node("Primitive", FALSE, <<>>))

NewList == \E c \in Ids(heap) : Alloc(Node("List", FALSE, <<c>>))

\* Union([x])
NewUnion == \E x \in Ids(heap) : Alloc(Node("Union", FALSE, <<x>>))

\* Record({"a": x})
NewRecord == \E x \in Ids(heap) : Alloc(Node("Record", FALSE, <<x>>))

\* Tuple([x, y])
NewTuple == \E x, y \in Ids(heap) : Alloc(Node("Tuple", FALSE, <<x, y>>))

NewPointer == \E t \in {NoneId} \cup Ids(heap) : Alloc(Node("Pointer", FALSE, <<t>>))

\* Pointer.target = value
SetTarget ==
  \E p \in Ids(heap), v \in {NoneId} \cup Ids(heap) :
    /\ CanCall
    /\ heap[p].kind = "Pointer"
    /\ ncalls' = ncalls + 1
    /\ UNCHANGED <<source, attrs, data, futures, clock, combiner>>
    /\ IF v = p
         THEN /\ heap' = heap
              /\ call' = [op |-> "target", node |-> p, status |-> "TypeError"]
         ELSE /\ heap' = [heap EXCEPT ![p].kids = <<v>>]
              /\ call' = NoCall

\* List.content = value
SetContent ==
  \E l \in Ids(heap), v \in Ids(heap) :
    /\ CanCall
    /\ heap[l].kind = "List"
    /\ ncalls' = ncalls + 1
    /\ UNCHANGED <<source, attrs, data, futures, clock, combiner>>
    /\ heap' = [heap EXCEPT ![l].kids = <<v>>]
    /\ call' = NoCall

\* Schema.nullable = True
SetNullable ==
  \E n \in Ids(heap) :
    /\ CanCall
    /\ ~heap[n].nullable
    /\ ncalls' = ncalls + 1
    /\ UNCHANGED <<source, attrs, data, futures, clock, combiner>>
    /\ heap' = [heap EXCEPT ![n].nullable = TRUE]
    /\ call' = NoCall

Build ==
  \/ NewPrimitive \/ NewList \/ NewUnion \/ NewRecord \/ NewTuple \/ NewPointer
  \/ SetTarget \/ SetContent \/ SetNullable

\* no combiner in the run
NoCombiner == [phase |-> "none"]

NoCombine == futures = <<>> /\ clock = 0 /\ combiner = NoCombiner

Init ==
  /\ heap = <<>>
  /\ ncalls = 0
  /\ call = NoCall
  /\ source = NoSource
  /\ attrs = <<>>
  /\ data = NoData
  /\ NoCombine

(***************************************************************************)
(* Graph helpers for stating the claims.                                   *)
(***************************************************************************)
Kids(h, n) == {h[n].kids[i] : i \in DOMAIN h[n].kids} \ {NoneId}

RECURSIVE Closure(_, _)
Closure(h, S) ==
  LET T == S \cup UNION {Kids(h, n) : n \in S}
  IN IF T = S THEN S ELSE Closure(h, T)

\* the nodes of the schema rooted at r
Reach(h, r) == Closure(h, {r})

\* every Pointer of the schema rooted at r has a target
Complete(h, r) == \A n \in Reach(h, r) : NoneId \notin {h[n].kids[i] : i \in DOMAIN h[n].kids}

\* n lies below itself
OnCycle(h, n) == n \in Closure(h, Kids(h, n))

\* the children reached without a Pointer hop: content, possibilities, fields
PlainKids(h, n) == IF h[n].kind = "Pointer" THEN {} ELSE Kids(h, n)

RECURSIVE PlainClosure(_, _)
PlainClosure(h, S) ==
  LET T == S \cup UNION {PlainKids(h, n) : n \in S}
  IN IF T = S THEN S ELSE PlainClosure(h, T)

\* a non-Pointer node that contains itself through ordinary nesting
SelfNested(h, n) == h[n].kind # "Pointer" /\ n \in PlainClosure(h, PlainKids(h, n))

\* a schema as the data model allows it: every Pointer has a target and the
\* only cycles pass through Pointers
Legal(h, r) == Complete(h, r) /\ \A n \in Reach(h, r) : ~SelfNested(h, n)

(***************************************************************************)
(* Specifications of equality: schemas are built, then compared.           *)
(***************************************************************************)
EqCall(a, b) ==
  /\ Idle
  /\ call' = [op |-> "eq", a |-> a, b |-> b, res |-> Eq(heap, a, b)]
  /\ UNCHANGED <<heap, ncalls, source, attrs, data, futures, clock, combiner>>

\* A == B for any two schemas
EqAny == \E a, b \in Ids(heap) : EqCall(a, b)

\* S == S
EqSelf == \E a \in Ids(heap) : EqCall(a, a)

NextEq == Build \/ EqAny

SpecEq == Init /\ [][NextEq]_vars

NextRefl == Build \/ EqSelf

SpecRefl == Init /\ [][NextRefl]_vars

IsEq == call.op = "eq"

\* C2: equality is symmetric: A == B has the truth value of B == A.
C2_EqSymmetric ==
  (IsEq /\ Legal(heap, call.a) /\ Legal(heap, call.b))
    => call.res = Eq(heap, call.b, call.a)

\* C3: S == S terminates and returns True, also when a Pointer of S targets
\* one of its own ancestors.
C3_EqReflexive ==
  (IsEq /\ call.a = call.b /\ Complete(heap, call.a)) => call.res = "True"

C3_Witness ==
  /\ IsEq /\ call.a = call.b /\ Complete(heap, call.a) /\ call.res = "True"
  /\ \E p \in Reach(heap, call.a) : heap[p].kind = "Pointer" /\ OnCycle(heap, p)

(***************************************************************************)
(* Specification of serialisation: a schema is built and written with      *)
(* tojson, and the document is read back with fromjson; or a document      *)
(* comes from outside and is read with fromjson.                           *)
(***************************************************************************)
\* the "type" entries of the kinds with one child
UnaryTypes == {"list", "union", "record", "pointer"}

RECURSIVE JsonDocs(_)
JsonDocs(d) ==
  IF d = 0 THEN {JStr, JRef(0)}
  ELSE LET sub == JsonDocs(d - 1)
       IN sub \cup {JDict(type, <<k>>, FALSE, l) :
                      type \in UnaryTypes, k \in sub, l \in {NoLabel, 0}}

\* S.tojson()
ToJsonCall ==
  \E r \in Ids(heap) :
    /\ Idle
    /\ LET out == ToJson(heap, r)
       IN call' = [op |-> "tojson", root |-> r, status |-> out.status, json |-> out.json]
    /\ UNCHANGED <<heap, ncalls, source, attrs, data, futures, clock, combiner>>

\* a document arrives from outside, in a process that has built nothing
LoadJson ==
  \E j \in JsonDocs(MaxJsonDepth) :
    /\ Idle
    /\ heap = <<>>
    /\ call' = [op |-> "json", root |-> NoneId, status |-> "ok", json |-> j]
    /\ UNCHANGED <<heap, ncalls, source, attrs, data, futures, clock, combiner>>

\* Schema.fromjson(document): the nodes it returns are new objects
FromJsonCall ==
  /\ call.op \in {"tojson", "json"}
  /\ call.status = "ok"
  /\ LET out == FromJson(heap, call.json)
     IN /\ heap' = out.heap
        /\ call' = [op |-> "fromjson", src |-> call.root, status |-> out.status,
                    root |-> out.root]
  /\ UNCHANGED <<ncalls, source, attrs, data, futures, clock, combiner>>

NextJson == Build \/ ToJsonCall \/ LoadJson \/ FromJsonCall

SpecJson == Init /\ [][NextJson]_vars

\* C1: Schema.fromjson(S.tojson()) succeeds and is structurally equal to S,
\* also for S with a node shared at several positions or a cycle through a
\* Pointer.
C1_RoundTrip ==
  /\ (call.op = "tojson" /\ Legal(heap, call.root)) => call.status = "ok"
  /\ (call.op = "fromjson" /\ call.src # NoneId /\ Legal(heap, call.src))
       => (call.status = "ok" /\ Eq(heap, call.src, call.root) = "True")

\* C8: no Pointer has itself as its target, however the target was given:
\* by the constructor, by the target setter or by fromjson.
C8_NoSelfTarget ==
  \A p \in Ids(heap) : heap[p].kind = "Pointer" => heap[p].kids[1] # p

(***************************************************************************)
(* Specifications of the compile.                                          *)
(***************************************************************************)
GeneratorCall(r, d) ==
  /\ Idle
  /\ LET out == Generator(heap, r, d)
     IN call' = [op |-> "generator", root |-> r, delimiter |-> d,
                 status |-> IF out.err = "" THEN "ok" ELSE out.err,
                 gens |-> out.gens, out |-> out.out, cachelen |-> out.cacheidx]
  /\ UNCHANGED <<heap, ncalls, source, attrs, data, futures, clock, combiner>>

\* S.generator()
GeneratorDefault == \E r \in Ids(heap) : GeneratorCall(r, DefaultDelimiter)

NextGen == Build \/ GeneratorDefault

SpecGen == Init /\ [][NextGen]_vars

RECURSIVE Strings(_)
Strings(n) ==
  IF n = 0 THEN {<<>>}
  ELSE LET shorter == Strings(n - 1)
       IN shorter \cup {Append(d, c) : d \in shorter, c \in Chars}

\* S.generator(delimiter=d)
GeneratorDelimited ==
  \E r \in Ids(heap), d \in Strings(MaxDelimLen) : GeneratorCall(r, d)

\* nested lists of a Primitive are built and compiled under any delimiter
NextDelim == NewPrimitive \/ NewList \/ GeneratorDelimited

SpecDelim == Init /\ [][NextDelim]_vars

IsGen == call.op = "generator"

\* C4: the compile raises 'types may not be defined in terms of themselves'
\* exactly when a non-Pointer node of the schema contains itself without a
\* Pointer hop; a shared node and a cycle through a Pointer are accepted.
C4_SelfDefinedIff ==
  (IsGen /\ Complete(heap, call.root)) =>
    /\ call.status = "SelfDefined" <=> \E n \in Reach(heap, call.root) : SelfNested(heap, n)
    /\ Legal(heap, call.root) => call.status = "ok"

\* C5: the compile terminates, with a generator or a validation error, on
\* every schema whose only cycles pass through Pointers.
C5_CompileTerminates ==
  (IsGen /\ \A n \in Reach(heap, call.root) : ~SelfNested(heap, n))
    => call.status # "RecursionError"

C7_DelimiterRejected ==
  IsGen => (call.status = "ValueError"
              <=> \E i \in DOMAIN call.delimiter : InBadClass(call.delimiter[i]))

(***************************************************************************)
(* Specification of the overlay source: over a schema with a node of each  *)
(* kind, nullable or not, a _DualSource is made and put and putall are     *)
(* called on it.                                                           *)
(***************************************************************************)
\* p = Primitive(..); List(p); Union([p]); Record({"a": p}); Tuple([p, p]);
\* Pointer(p), each with nullable as given
SampleSchema(nullable) ==
  << Node("Primitive", nullable[1], <<>>),
     Node("List", nullable[2], <<1>>),
     Node("Union", nullable[3], <<1>>),
     Node("Record", nullable[4], <<1>>),
     Node("Tuple", nullable[5], <<1, 1>>),
     Node("Pointer", nullable[6], <<1>>) >>

InitDual ==
  /\ \E nullable \in [1 .. 6 -> BOOLEAN] : heap = SampleSchema(nullable)
  /\ ncalls = 0
  /\ call = NoCall
  /\ source = NoSource
  /\ attrs = [n \in 1 .. 6 |-> NoAttrs]
  /\ data = NoData
  /\ NoCombine

\* the wrapped source: a mapping from names to arrays
OldSources == UNION {[names -> {"old"}] : names \in SUBSET {0, OtherName}}

OldNamespaces == {{}, {0}}

\* _DualSource(old, oldns)
NewDualSource ==
  \E old \in OldSources, oldns \in OldNamespaces :
    /\ Idle
    /\ source = NoSource
    /\ source' = DualSource(old, oldns)
    /\ call' = [op |-> "dualsource", status |-> "ok"]
    /\ UNCHANGED <<heap, ncalls, attrs, data, futures, clock, combiner>>

\* the roles put reads arrays for, in the order of the arguments
RolesOf(kind) ==
  CASE kind = "Primitive" -> <<"data">>
    [] kind = "List"      -> <<"starts", "stops">>
    [] kind = "Union"     -> <<"tags", "offsets">>
    [] kind = "Record"    -> <<>>
    [] kind = "Tuple"     -> <<>>
    [] kind = "Pointer"   -> <<"positions">>

ArgRoles(h, n) ==
  RolesOf(h[n].kind) \o (IF h[n].nullable THEN <<"mask">> ELSE <<>>)

\* the arrays of a call: one for each role of the kind, the mask last
Arguments(h, n) == [i \in 1 .. Len(ArgRoles(h, n)) |-> <<"argument", i>>]

CanPut == source # NoSource /\ call.status = "ok"

\* source.put(node, *arrays)
PutCall ==
  \E n \in Ids(heap) :
    /\ CanPut
    /\ source.arraynum < MaxArrays
    /\ LET out == Put(source, attrs, heap, n, Arguments(heap, n))
       IN /\ source' = out.source
          /\ attrs' = out.attrs
          /\ call' = [op |-> "put", node |-> n, status |-> out.status,
                      arrays |-> Arguments(heap, n), had |-> DOMAIN source.new]
    /\ UNCHANGED <<heap, ncalls, data, futures, clock, combiner>>

\* source.putall({role: array})
PutAllCall ==
  \E name \in {0, 1, OtherName} :
    /\ CanPut
    /\ Cardinality(DOMAIN source.new) < MaxArrays
    /\ source' = PutAll(source, <<Item(Role(name, source.namespace, "data"), "given")>>)
    /\ call' = [op |-> "putall", status |-> "ok"]
    /\ UNCHANGED <<heap, ncalls, attrs, data, futures, clock, combiner>>

NextDual == NewDualSource \/ PutCall \/ PutAllCall

SpecDual == InitDual /\ [][NextDual]_vars

\* C9: no put and no putall changes the mapping of the wrapped old source;
\* arrays are added to the overlay's own mapping only.
C9_OldUnchanged ==
  [][source # NoSource => (source' # NoSource /\ source'.old = source.old)]_vars

C9_Witness ==
  /\ source # NoSource
  /\ call.op = "put"
  /\ call.status = "ok"
  /\ \E k \in DOMAIN source.old \cap DOMAIN source.new : source.new[k] # source.old[k]

\* C10: put succeeds on a node of every kind and binds the kind's roles,
\* and the mask when the node is nullable, to the arrays given, under new
\* names of the overlay, and no other role.
C10_PutBinds ==
  call.op = "put" =>
    /\ call.status = "ok"
    /\ LET n  == call.node
           rs == ArgRoles(heap, n)
       IN /\ attrs[n].namespace = source.namespace
          /\ \A i \in DOMAIN rs :
               /\ attrs[n][rs[i]] \in DOMAIN source.new \ call.had
               /\ source.new[attrs[n][rs[i]]] = call.arrays[i]
          /\ \A r \in {"data", "mask", "starts", "stops", "tags", "offsets", "positions"} :
               (\A i \in DOMAIN rs : rs[i] # r) => attrs[n][r] = NoName

(***************************************************************************)
(* Arrays.  A numpy array is a sequence; the Python index i is the index   *)
(* i + 1 of the sequence.                                                  *)
(***************************************************************************)
At(a, i) == a[i + 1]

SetMin(S) == CHOOSE x \in S : \A y \in S : x <= y

SetMax(S) == CHOOSE x \in S : \A y \in S : x >= y

Range(a) == {a[k] : k \in DOMAIN a}

\* a slice bound beyond the end of the array is taken as the end
Clip(i, n) == IF i > n THEN n ELSE i

\* a[start:stop] = v for a number v
SliceFill(a, start, stop, v) ==
  [k \in 1 .. Len(a) |->
     IF Clip(start, Len(a)) < k /\ k <= Clip(stop, Len(a)) THEN v ELSE a[k]]

\* a[start:stop] = vals for an array vals: the shapes must agree, an array
\* of one element being broadcast
SliceAssign(a, start, stop, vals) ==
  LET lo == Clip(start, Len(a))
      hi == Clip(stop, Len(a))
      n  == IF hi > lo THEN hi - lo ELSE 0
  IN IF Len(vals) = n
       THEN [err |-> "", arr |-> [k \in 1 .. Len(a) |->
                                    IF lo < k /\ k <= hi THEN vals[k - lo] ELSE a[k]]]
     ELSE IF Len(vals) = 1
       THEN [err |-> "", arr |-> SliceFill(a, start, stop, vals[1])]
     ELSE [err |-> "ValueError", arr |-> a]

\* numpy.arange(n)
Arange(n) == [k \in 1 .. n |-> k - 1]

\* what numpy.empty leaves in a cell: whatever the memory held
Junk == -5

UninitValues == {0, Junk}

\* numpy.empty(n)
Empty(n, junk) == [k \in 1 .. n |-> junk]

(***************************************************************************)
(* The data an operation is applied to.  The schema is the copy with all   *)
(* names set that the operation works on (namedschema()); the name of the  *)
(* array of node n for a role is a name of the old source, not of the      *)
(* form "array-k".  Of the old source's arrays, data.arrays holds those    *)
(* the operations read.                                                    *)
(***************************************************************************)
RoleCode(role) ==
  CASE role = "data"      -> 1
    [] role = "mask"      -> 2
    [] role = "starts"    -> 3
    [] role = "stops"     -> 4
    [] role = "tags"      -> 5
    [] role = "offsets"   -> 6
    [] role = "positions" -> 7

OldName(n, role) == 0 - (10 * n + RoleCode(role))

NamedAttrs(h) ==
  [n \in Ids(h) |->
     [r \in DOMAIN NoAttrs |->
        IF r = "namespace" THEN DefaultNamespace
        ELSE IF \E i \in DOMAIN RolesOf(h[n].kind) : RolesOf(h[n].kind)[i] = r
          THEN OldName(n, r)
        ELSE IF r = "mask" /\ h[n].nullable THEN OldName(n, r)
        ELSE NoName]]

\* a slot [b, e) of the content
Slots == {x \in (0 .. MaxItems) \X (0 .. MaxItems) : x[1] <= x[2]}

\* the slots of a list of at most MaxSlots slots
SlotSeqs == UNION {[1 .. n -> Slots] : n \in 0 .. MaxSlots}

StartsOf(slots) == [i \in DOMAIN slots |-> slots[i][1]]

StopsOf(slots) == [i \in DOMAIN slots |-> slots[i][2]]

\* listgenerator._getstartsstops(data._arrays, data._cache)
GetStartsStops(at, d, listnode) ==
  [starts |-> d.arrays[at[listnode].starts], stops |-> d.arrays[at[listnode].stops]]

(***************************************************************************)
(* parent and index, applied to the field "children" of                    *)
(* Record({"children": List(Record({"x": Primitive}))}).                   *)
(***************************************************************************)
\* the outcome of an operation that raises: nothing is put
Raised(h, at, status) ==
  [status |-> status, heap |-> h, attrs |-> at, source |-> NoSource, field |-> NoneId]

\* childnode[fieldname] = node; arrays = _DualSource(data._arrays, ...);
\* arrays.put(childnode[fieldname], array); schema(arrays), which compiles
\* the schema
Attach(h, at, d, childnode, node, array) ==
  LET n   == Len(h) + 1
      h2  == [Append(h, node) EXCEPT ![childnode].kids = Append(@, n)]
      at2 == [k \in 1 .. n |-> IF k = n THEN NoAttrs ELSE at[k]]
      p   == Put(DualSource(d.arrays, {}), at2, h2, n, <<array>>)
      g   == Generator(h2, d.root, DefaultDelimiter)
  IN [status |-> IF p.status # "ok" THEN p.status
                 ELSE IF g.err # "" THEN g.err ELSE "ok",
      heap |-> h2, attrs |-> p.attrs, source |-> p.source, field |-> n]

RECURSIVE ParentFill(_, _, _, _)
\* for i in range(len(starts)): pointers[starts[i]:stops[i]] = i
ParentFill(starts, stops, pointers, i) ==
  IF i >= Len(starts) THEN pointers
  ELSE ParentFill(starts, stops,
                  SliceFill(pointers, At(starts, i), At(stops, i), i), i + 1)

\* parent(data, fieldname, at)
Parent(h, at, d, junk) ==
  IF Len(d.nodes) < 2 THEN Raised(h, at, "TypeError")
  ELSE LET listnode   == d.nodes[1]
           parentnode == d.nodes[2]
           childnode  == h[listnode].kids[1]
           ss         == GetStartsStops(at, d, listnode)
       IN IF h[listnode].kind # "List" THEN Raised(h, at, "TypeError")
          ELSE IF h[childnode].kind # "Record" THEN Raised(h, at, "TypeError")
          ELSE IF h[listnode].nullable \/ h[childnode].nullable
            THEN Raised(h, at, "NotImplementedError")
          \* stops.max() of an array without elements
          ELSE IF Len(ss.starts) = 0 THEN Raised(h, at, "ValueError")
          ELSE Attach(h, at, d, childnode, Node("Pointer", FALSE, <<parentnode>>),
                      ParentFill(ss.starts, ss.stops,
                                 Empty(SetMax(Range(ss.stops)) - SetMin(Range(ss.starts)), junk),
                                 0))

RECURSIVE IndexFill(_, _, _, _)
\* for i in range(len(starts)):
\*     pointers[starts[i]:stops[i]] = numpy.arange(stops[i] - starts[i])
IndexFill(starts, stops, pointers, i) ==
  IF i >= Len(starts) THEN [err |-> "", arr |-> pointers]
  ELSE LET r == SliceAssign(pointers, At(starts, i), At(stops, i),
                            Arange(At(stops, i) - At(starts, i)))
       IN IF r.err # "" THEN r ELSE IndexFill(starts, stops, r.arr, i + 1)

\* index(data, fieldname, at)
Index(h, at, d, junk) ==
  LET listnode  == d.nodes[1]
      childnode == h[listnode].kids[1]
      ss        == GetStartsStops(at, d, listnode)
  IN IF h[listnode].kind # "List" THEN Raised(h, at, "TypeError")
     ELSE IF h[childnode].kind # "Record" THEN Raised(h, at, "TypeError")
     ELSE IF h[listnode].nullable \/ h[childnode].nullable
       THEN Raised(h, at, "NotImplementedError")
     ELSE IF Len(ss.starts) = 0 THEN Raised(h, at, "ValueError")
     ELSE LET values == IndexFill(ss.starts, ss.stops,
                                  Empty(SetMax(Range(ss.stops)) - SetMin(Range(ss.starts)), junk),
                                  0)
          IN IF values.err # "" THEN Raised(h, at, values.err)
             ELSE Attach(h, at, d, childnode, Node("Primitive", FALSE, <<>>), values.arr)

\* x = Primitive(..); child = Record({"x": x}); children = List(child);
\* Record({"children": children})
ListOfRecords(listnullable, childnullable) ==
  << Node("Primitive", FALSE, <<>>),
     Node("Record", childnullable, <<1>>),
     Node("List", listnullable, <<2>>),
     Node("Record", FALSE, <<3>>) >>

\* the arrays of a list node with the given slots
ListArrays(n, slots) ==
  [name \in {OldName(n, "starts"), OldName(n, "stops")} |->
     IF name = OldName(n, "starts") THEN StartsOf(slots) ELSE StopsOf(slots)]

InitLists ==
  /\ \E listnullable, childnullable \in BOOLEAN :
       heap = ListOfRecords(listnullable, childnullable)
  /\ attrs = NamedAttrs(heap)
  /\ \E slots \in SlotSeqs :
       data = [root |-> 4, nodes |-> <<3, 4>>, arrays |-> ListArrays(3, slots)]
  /\ ncalls = 0
  /\ call = NoCall
  /\ source = NoSource
  /\ NoCombine

\* an operation's result taken over as the state
Apply(op, out) ==
  /\ heap' = out.heap
  /\ attrs' = out.attrs
  /\ source' = out.source
  /\ call' = [op |-> op, status |-> out.status, field |-> out.field]
  /\ UNCHANGED <<ncalls, data, futures, clock, combiner>>

ParentCall == \E junk \in UninitValues : Idle /\ Apply("parent", Parent(heap, attrs, data, junk))

IndexCall == \E junk \in UninitValues : Idle /\ Apply("index", Index(heap, attrs, data, junk))

NextLists == ParentCall \/ IndexCall

SpecLists == InitLists /\ [][NextLists]_vars

\* the starts and stops the operation was given
GivenStarts == data.arrays[OldName(data.nodes[1], "starts")]

GivenStops == data.arrays[OldName(data.nodes[1], "stops")]

\* the slots are pairwise disjoint
DisjointSlots ==
  \A i, j \in DOMAIN GivenStarts :
    i # j => (GivenStops[i] <= GivenStarts[j] \/ GivenStops[j] <= GivenStarts[i])

\* a non-nullable List(Record) field with at least one slot
PlainListOfRecords ==
  /\ ~heap[3].nullable
  /\ ~heap[2].nullable
  /\ Len(GivenStarts) > 0
  /\ DisjointSlots

\* C11: for a non-nullable List(Record) field with pairwise disjoint slots,
\* the positions buffer parent attaches holds i at every content position j
\* with starts[i] <= j < stops[i].
C11_ParentPositions ==
  (call.op = "parent" /\ PlainListOfRecords) =>
    /\ call.status = "ok"
    /\ LET buf == source.new[attrs[call.field].positions]
       IN \A i \in DOMAIN GivenStarts, j \in 0 .. MaxItems :
            (GivenStarts[i] <= j /\ j < GivenStops[i]) =>
              (j < Len(buf) /\ At(buf, j) = i - 1)

\* C12: for a non-nullable List(Record) field with pairwise disjoint slots,
\* the buffer index attaches holds j - starts[i] at every content position j
\* with starts[i] <= j < stops[i].
C12_IndexValues ==
  (call.op = "index" /\ PlainListOfRecords) =>
    /\ call.status = "ok"
    /\ LET buf == source.new[attrs[call.field].data]
       IN \A i \in DOMAIN GivenStarts, j \in 0 .. MaxItems :
            (GivenStarts[i] <= j /\ j < GivenStops[i]) =>
              (j < Len(buf) /\ At(buf, j) = j - GivenStarts[i])

(***************************************************************************)
(* tomask, applied to List(Primitive).  A number is an integer; NaN is the *)
(* one value that no comparison holds of.                                  *)
(***************************************************************************)
NaN == -99

\* high=None
NoHigh == -98

\* oamap.generator.Masked.maskedvalue: the mask of an element that is None
MaskedValue == -1

Numbers == 1 .. MaxItems

IsNaN(x) == x = NaN

NumEq(x, y) == ~IsNaN(x) /\ ~IsNaN(y) /\ x = y

NumGe(x, y) == ~IsNaN(x) /\ ~IsNaN(y) /\ x >= y

NumLe(x, y) == ~IsNaN(x) /\ ~IsNaN(y) /\ x <= y

SelectionNoUpper(primitive, low, high) ==
  [k \in DOMAIN primitive |->
     IF high = NoHigh
       THEN IF IsNaN(low) THEN IsNaN(primitive[k]) ELSE NumEq(primitive[k], low)
       ELSE NumGe(primitive[k], low)]

\* the selection of tomask: numpy.isnan(primitive), primitive == low, or
\* (primitive >= low) & (primitive <= high)
Selection(primitive, low, high) ==
  [k \in DOMAIN primitive |->
     IF high = NoHigh
       THEN IF IsNaN(low) THEN IsNaN(primitive[k]) ELSE NumEq(primitive[k], low)
       ELSE NumGe(primitive[k], low) /\ NumLe(primitive[k], high)]

RECURSIVE Descend(_, _)
\* while isinstance(nodes[0], List): nodes = (nodes[0].content,) + nodes
Descend(h, n) == IF h[n].kind = "List" THEN Descend(h, h[n].kids[1]) ELSE n

\* mask[selection] = maskedvalue.  A boolean index of another length than
\* the array is an IndexError in numpy from 1.13 on; an older numpy reads
\* the index as far as it goes.
MaskSelected(mask0, sel, lenient) ==
  IF Len(sel) # Len(mask0) /\ ~lenient THEN [err |-> "IndexError", arr |-> mask0]
  ELSE [err |-> "",
        arr |-> [k \in DOMAIN mask0 |->
                   IF k <= Len(sel) /\ sel[k] THEN MaskedValue ELSE mask0[k]]]

\* tomask(data, at, low, high)
Tomask(h, at, d, low, high, lenient) ==
  LET node == Descend(h, d.nodes[1])
  IN IF h[node].kind # "Primitive" THEN Raised(h, at, "NotImplementedError")
     ELSE LET primitive == d.arrays[at[node].data]
              mask0 == IF h[node].nullable THEN d.arrays[at[node].mask]
                       ELSE Arange(Len(primitive))
              h2    == [h EXCEPT ![node].nullable = TRUE]
              sel   == Selection(primitive, low, high)
              mask  == MaskSelected(mask0, sel, lenient)
              p     == Put(DualSource(d.arrays, {}), at, h2, node, <<primitive, mask.arr>>)
              g     == Generator(h2, d.root, DefaultDelimiter)
          IN IF high # NoHigh /\ (IsNaN(low) \/ IsNaN(high))
               THEN Raised(h2, at, "ValueError")
             ELSE IF mask.err # "" THEN Raised(h2, at, mask.err)
             ELSE [status |-> IF p.status # "ok" THEN p.status
                              ELSE IF g.err # "" THEN g.err ELSE "ok",
                   heap |-> h2, attrs |-> p.attrs, source |-> p.source, field |-> node]

\* List(Primitive(..))
ListOfPrimitive(nullable) ==
  << Node("Primitive", nullable, <<>>), Node("List", FALSE, <<1>>) >>

\* arrays of at most MaxItems elements
ArraysOf(values) == UNION {[1 .. n -> values] : n \in 0 .. MaxItems}

\* the mask of a nullable array: an element's own index, or MaskedValue
MasksOf(n) == {m \in [1 .. n -> (0 .. (n - 1)) \cup {MaskedValue}] :
                 \A k \in 1 .. n : m[k] \in {k - 1, MaskedValue}}

InitTomask ==
  /\ \E nullable \in BOOLEAN, primitive \in ArraysOf(Numbers \cup {NaN}) :
       /\ heap = ListOfPrimitive(nullable)
       /\ \E mask \in MasksOf(Len(primitive)) :
            data = [root |-> 2, nodes |-> <<2>>,
                    arrays |-> IF nullable
                                 THEN (OldName(1, "data") :> primitive)
                                        @@ (OldName(1, "mask") :> mask)
                                 ELSE (OldName(1, "data") :> primitive)]
  /\ attrs = NamedAttrs(heap)
  /\ ncalls = 0
  /\ call = NoCall
  /\ source = NoSource
  /\ NoCombine

\* tomask under a numpy that takes (lenient) or refuses a boolean index of
\* another length
TomaskWith(lenient) ==
  \E low \in Numbers \cup {NaN}, high \in Numbers \cup {NaN, NoHigh} :
    /\ Idle
    /\ LET out == Tomask(heap, attrs, data, low, high, lenient)
       IN /\ heap' = out.heap
          /\ attrs' = out.attrs
          /\ source' = out.source
          /\ call' = [op |-> "tomask", status |-> out.status, field |-> out.field,
                      low |-> low, high |-> high]
    /\ UNCHANGED <<ncalls, data, futures, clock, combiner>>

TomaskCall == TomaskWith(FALSE)

NextTomask == TomaskCall

SpecTomask == InitTomask /\ [][NextTomask]_vars

\* the Primitive given to tomask was not nullable
GivenPlainPrimitive == OldName(1, "mask") \notin DOMAIN data.arrays

GivenData == data.arrays[OldName(1, "data")]

\* C13: on a non-nullable Primitive, tomask gives a nullable Primitive whose
\* data is a copy of the old data and whose mask is, at k, the masked value
\* if data[k] = low (data[k] is NaN if low is NaN) or, with high given, if
\* low <= data[k] <= high, and k otherwise.
C13_TomaskMask ==
  (/\ call.op = "tomask"
   /\ GivenPlainPrimitive
   /\ call.high # NoHigh => (~IsNaN(call.low) /\ ~IsNaN(call.high))) =>
    /\ call.status = "ok"
    /\ heap[call.field].nullable
    /\ source.new[attrs[call.field].data] = GivenData
    /\ LET m == source.new[attrs[call.field].mask]
       IN /\ Len(m) = Len(GivenData)
          /\ \A k \in 0 .. (Len(GivenData) - 1) :
               LET x == At(GivenData, k)
                   masked == IF call.high # NoHigh
                               THEN ~IsNaN(x) /\ call.low <= x /\ x <= call.high
                             ELSE IF IsNaN(call.low) THEN IsNaN(x)
                             ELSE ~IsNaN(x) /\ x = call.low
               IN At(m, k) = (IF masked THEN MaskedValue ELSE k)

C13_Witness ==
  /\ call.op = "tomask"
  /\ call.status = "ok"
  /\ GivenPlainPrimitive
  /\ call.high # NoHigh
  /\ LET m == source.new[attrs[call.field].mask]
     IN /\ \E k \in DOMAIN m : m[k] = MaskedValue
        /\ \E k \in DOMAIN m : m[k] # MaskedValue /\ GivenData[k] > call.high
        /\ \E k \in DOMAIN m : IsNaN(GivenData[k])

(***************************************************************************)
(* flatten, applied to List(List(Primitive)).                              *)
(***************************************************************************)
\* a[idx] of a numpy array: a negative index counts from the end
Item1(a, idx) ==
  IF idx >= Len(a) \/ idx < 0 - Len(a) THEN [err |-> "IndexError", val |-> 0]
  ELSE [err |-> "", val |-> IF idx < 0 THEN a[Len(a) + idx + 1] ELSE a[idx + 1]]

\* a[idxs] for an array of indexes
Take(a, idxs) ==
  IF \E k \in DOMAIN idxs : Item1(a, idxs[k]).err # ""
    THEN [err |-> "IndexError", arr |-> <<>>]
    ELSE [err |-> "", arr |-> [k \in DOMAIN idxs |-> Item1(a, idxs[k]).val]]

ContiguousUnchecked(innerstarts, innerstops) == TRUE

\* numpy.array_equal(innerstarts[1:], innerstops[:-1])
Contiguous(innerstarts, innerstops) ==
  \A k \in 1 .. (Len(innerstarts) - 1) : innerstarts[k + 1] = innerstops[k]

\* flatten(data, at)
Flatten(h, at, d) ==
  LET outernode == d.nodes[1]
      innernode == h[outernode].kids[1]
  IN IF ~d.top THEN Raised(h, at, "TypeError")
     ELSE IF h[outernode].kind # "List" \/ h[innernode].kind # "List"
       THEN Raised(h, at, "TypeError")
     ELSE IF h[outernode].nullable \/ h[innernode].nullable
       THEN Raised(h, at, "NotImplementedError")
     ELSE LET outer  == GetStartsStops(at, d, outernode)
              inner  == GetStartsStops(at, d, innernode)
              starts == Take(inner.starts, outer.starts)
              stops  == Take(inner.stops, [k \in DOMAIN outer.stops |-> outer.stops[k] - 1])
              h2     == [h EXCEPT ![outernode].kids = h[innernode].kids]
              p      == Put(DualSource(d.arrays, {}), at, h2, outernode,
                            <<starts.arr, stops.arr>>)
              g      == Generator(h2, d.root, DefaultDelimiter)
          IN IF ~Contiguous(inner.starts, inner.stops)
               THEN Raised(h, at, "NotImplementedError")
             ELSE IF starts.err # "" THEN Raised(h, at, starts.err)
             ELSE IF stops.err # "" THEN Raised(h, at, stops.err)
             ELSE [status |-> IF p.status # "ok" THEN p.status
                              ELSE IF g.err # "" THEN g.err ELSE "ok",
                   heap |-> h2, attrs |-> p.attrs, source |-> p.source,
                   field |-> outernode]

\* List(List(Primitive(..)))
ListOfLists(outernullable, innernullable) ==
  << Node("Primitive", FALSE, <<>>),
     Node("List", innernullable, <<1>>),
     Node("List", outernullable, <<2>>) >>

\* slots [b, e) over at most n things, at most MaxSlots of them
SlotSeqsOver(n) ==
  UNION {[1 .. k -> {x \in (0 .. n) \X (0 .. n) : x[1] <= x[2]}] : k \in 0 .. MaxSlots}

\* the inner lists lie over at most MaxSlots elements; the outer slots lie
\* over the inner lists
FlattenArrays(outer, inner) == ListArrays(3, outer) @@ ListArrays(2, inner)

\* the outer slots follow one another in the order of their starts
Ordered(slots) == \A k \in 1 .. (Len(slots) - 1) : slots[k][1] <= slots[k + 1][1]

\* a root view of a plain list of lists with any slots, or a view that is
\* not a root view, or a list of lists with a nullable list, of few slots
InitFlatten ==
  /\ \E inner \in SlotSeqsOver(MaxSlots) :
       \E outer \in {x \in SlotSeqsOver(Len(inner)) : Ordered(x)} :
         \E top, outernullable, innernullable \in BOOLEAN :
           /\ (~top \/ outernullable \/ innernullable) => Len(outer) <= 1
           /\ ~top => (~outernullable /\ ~innernullable)
           /\ data = [root |-> 3, nodes |-> <<3>>, top |-> top,
                      arrays |-> FlattenArrays(outer, inner)]
           /\ heap = ListOfLists(outernullable, innernullable)
  /\ attrs = NamedAttrs(heap)
  /\ ncalls = 0
  /\ call = NoCall
  /\ source = NoSource
  /\ NoCombine

FlattenCall == Idle /\ Apply("flatten", Flatten(heap, attrs, data))

NextFlatten == FlattenCall

SpecFlatten == InitFlatten /\ [][NextFlatten]_vars

OuterStarts == data.arrays[OldName(3, "starts")]

OuterStops == data.arrays[OldName(3, "stops")]

InnerStarts == data.arrays[OldName(2, "starts")]

InnerStops == data.arrays[OldName(2, "stops")]

\* the elements of the slot [b, e)
Span(b, e) == {j \in 0 .. MaxItems : b <= j /\ j < e}

\* C14: for a non-nullable List(List(X)) with contiguous inner lists,
\* flatten gives a list with as many slots as the outer list, slot i
\* spanning exactly the elements of the inner lists outerstarts[i] ..
\* outerstops[i] - 1; an empty outer slot gives an empty slot and no error.
C14_FlattenSlots ==
  (/\ call.op = "flatten"
   /\ data.top
   /\ ~heap[3].nullable /\ ~heap[2].nullable
   /\ Contiguous(InnerStarts, InnerStops)) =>
    /\ call.status = "ok"
    /\ LET starts == source.new[attrs[3].starts]
           stops  == source.new[attrs[3].stops]
       IN /\ Len(starts) = Len(OuterStarts)
          /\ Len(stops) = Len(OuterStarts)
          /\ \A i \in DOMAIN OuterStarts :
               Span(starts[i], stops[i]) =
                 UNION {Span(At(InnerStarts, k), At(InnerStops, k)) :
                          k \in OuterStarts[i] .. (OuterStops[i] - 1)}

\* C15: when some inner list does not start where the one before it stops,
\* flatten raises NotImplementedError and gives no new schema and no arrays.
C15_FlattenRejects ==
  (/\ call.op = "flatten"
   /\ data.top
   /\ \E k \in 1 .. (Len(InnerStarts) - 1) : InnerStarts[k + 1] # InnerStops[k]) =>
    /\ call.status = "NotImplementedError"
    /\ source = NoSource
    /\ heap[3].kids = <<2>>
    /\ attrs = NamedAttrs(heap)

C15_Witness ==
  /\ call.op = "flatten"
  /\ call.status = "NotImplementedError"
  /\ ~heap[3].nullable /\ ~heap[2].nullable
  /\ \E k \in 1 .. (Len(InnerStarts) - 1) : InnerStarts[k + 1] > InnerStops[k]
  /\ \E i \in DOMAIN OuterStarts : OuterStarts[i] = 0 /\ OuterStops[i] = Len(InnerStarts)

(***************************************************************************)
(* filter, applied to List(X) and to List(Pointer(X)), X a Primitive.      *)
(*                                                                         *)
(* The view is the list proxy of the one slot [viewstarts.min(),           *)
(* viewstops.max()) of the list: it has as many elements as the slot, and  *)
(* its element k is the element of the content at the slot's start + k,    *)
(* read through the Pointer if the content is one.  The predicate is the   *)
(* set of the elements it holds of.                                        *)
(***************************************************************************)
\* the element of the content at position q
Element(h, at, d, content, q) ==
  IF h[content].kind = "Pointer"
    THEN At(d.arrays[at[h[content].kids[1]].data], At(d.arrays[at[content].positions], q))
    ELSE At(d.arrays[at[content].data], q)

\* len(view)
ViewLen(ss) == SetMax(Range(ss.stops)) - SetMin(Range(ss.starts))

\* view[k]
ViewItem(h, at, d, listnode, ss, k) ==
  IF k >= ViewLen(ss) THEN [err |-> "IndexError", val |-> 0]
  ELSE [err |-> "",
        val |-> Element(h, at, d, h[listnode].kids[1], SetMin(Range(ss.starts)) + k)]

RECURSIVE FillSlot(_, _, _, _, _, _, _, _)
\* for j in range(viewstarts[i], viewstops[i]):
\*     datum = view[j]
\*     if fcn(datum): pointers[numitems] = j; numitems += 1
FillSlot(h, at, d, listnode, ss, fcn, j, st) ==
  IF st.err # "" \/ j >= At(ss.stops, st.i) THEN st
  ELSE LET datum == ViewItem(h, at, d, listnode, ss, j)
       IN IF datum.err # "" THEN [st EXCEPT !.err = datum.err]
          ELSE IF datum.val \notin fcn
            THEN FillSlot(h, at, d, listnode, ss, fcn, j + 1, st)
          ELSE IF st.numitems >= Len(st.pointers) THEN [st EXCEPT !.err = "IndexError"]
          ELSE FillSlot(h, at, d, listnode, ss, fcn, j + 1,
                        [st EXCEPT !.pointers[st.numitems + 1] = j,
                                   !.numitems = @ + 1])

RECURSIVE FilterFill(_, _, _, _, _, _, _)
\* for i in range(len(viewstarts)): ...; stops[i] = numitems
FilterFill(h, at, d, listnode, ss, fcn, st) ==
  IF st.err # "" \/ st.i >= Len(ss.starts) THEN st
  ELSE LET r == FillSlot(h, at, d, listnode, ss, fcn, At(ss.starts, st.i), st)
       IN IF r.err # "" THEN r
          ELSE FilterFill(h, at, d, listnode, ss, fcn,
                          [r EXCEPT !.offsets[st.i + 2] = r.numitems, !.i = @ + 1])

ComposeOmitted(innerpointers, pointers) == [err |-> "", arr |-> pointers]

\* pointers = innerpointers[pointers]
Compose(innerpointers, pointers) == Take(innerpointers, pointers)

\* filter(data, fcn, at=...)
Filter(h, at, d, fcn) ==
  LET listnode == d.nodes[1]
  IN IF ~d.top THEN Raised(h, at, "TypeError")
     ELSE IF h[listnode].kind # "List" THEN Raised(h, at, "TypeError")
     ELSE IF h[listnode].nullable THEN Raised(h, at, "NotImplementedError")
     ELSE LET ss == GetStartsStops(at, d, listnode)
          IN \* viewstarts.min() of an array without elements
             IF Len(ss.starts) = 0 THEN Raised(h, at, "ValueError")
             ELSE LET content == h[listnode].kids[1]
                      fill == FilterFill(h, at, d, listnode, ss, fcn,
                                [i |-> 0, numitems |-> 0, err |-> "",
                                 offsets |-> [k \in 1 .. (Len(ss.starts) + 1) |-> 0],
                                 pointers |-> Empty(ViewLen(ss), Junk)])
                      n    == Len(h) + 1
                      wasptr == h[content].kind = "Pointer"
                      \* listnode.content = Pointer(listnode.content), and
                      \* its target the old Pointer's target if it was one
                      h2   == [Append(h, Node("Pointer", FALSE,
                                               IF wasptr THEN h[content].kids
                                               ELSE <<content>>))
                                 EXCEPT ![listnode].kids = <<n>>]
                      at2  == [k \in 1 .. n |-> IF k = n THEN NoAttrs ELSE at[k]]
                      kept == SubSeq(fill.pointers, 1, fill.numitems)
                      pointers == IF wasptr
                                    THEN Compose(d.arrays[at[content].positions], kept)
                                    ELSE [err |-> "", arr |-> kept]
                      \* arrays.put(listnode.content, pointers); schema(arrays)
                      Second(p1) ==
                        LET p2 == Put(p1.source, p1.attrs, h2, n, <<pointers.arr>>)
                            g  == Generator(h2, d.root, DefaultDelimiter)
                        IN [status |-> IF p1.status # "ok" THEN p1.status
                                       ELSE IF p2.status # "ok" THEN p2.status
                                       ELSE IF g.err # "" THEN g.err ELSE "ok",
                            heap |-> h2, attrs |-> p2.attrs, source |-> p2.source,
                            field |-> n]
                  IN IF fill.err # "" THEN Raised(h, at, fill.err)
                     ELSE IF wasptr /\ h[content].nullable
                       THEN Raised(h2, at, "NotImplementedError")
                     ELSE IF pointers.err # "" THEN Raised(h2, at, pointers.err)
                     ELSE \* arrays.put(listnode, offsets[:-1], offsets[1:]), and
                          \* the second put on the source the first one left
                          CHOOSE out \in
                            {Second(p1) : p1 \in
                               {Put(DualSource(d.arrays, {}), at2, h2, listnode,
                                    <<SubSeq(fill.offsets, 1, Len(fill.offsets) - 1),
                                      SubSeq(fill.offsets, 2, Len(fill.offsets))>>)}} :
                            TRUE

\* the elements of X: each its own value
XData == [k \in 1 .. MaxItems |-> k - 1]

\* List(X): a root view with any slots, or another view or a nullable list
\* with at most one slot
InitFilter ==
  /\ \E slots \in SlotSeqs, top, nullable \in BOOLEAN :
       /\ (~top \/ nullable) => Len(slots) <= 1
       /\ heap = << Node("Primitive", FALSE, <<>>), Node("List", nullable, <<1>>) >>
       /\ data = [root |-> 2, nodes |-> <<2>>, top |-> top,
                  arrays |-> ListArrays(2, slots) @@ (OldName(1, "data") :> XData)]
  /\ attrs = NamedAttrs(heap)
  /\ ncalls = 0
  /\ call = NoCall
  /\ source = NoSource
  /\ NoCombine

FilterCall ==
  \E fcn \in SUBSET Range(XData) :
    /\ Idle
    /\ \E out \in {Filter(heap, attrs, data, fcn)} :
         /\ heap' = out.heap
         /\ attrs' = out.attrs
         /\ source' = out.source
         /\ call' = [op |-> "filter", status |-> out.status, field |-> out.field,
                     fcn |-> fcn]
    /\ UNCHANGED <<ncalls, data, futures, clock, combiner>>

NextFilter == FilterCall

SpecFilter == InitFilter /\ [][NextFilter]_vars

\* the positions start .. stop - 1, in order
Positions(start, stop) == [k \in 1 .. (stop - start) |-> start + k - 1]

\* the slot [start, stop) of a buffer
Slice(a, start, stop) == SubSeq(a, start + 1, stop)

\* the positions of the given slot i whose element the predicate holds of
Passing(i) ==
  LET Holds(j) == At(XData, j) \in call.fcn
  IN SelectSeq(Positions(GivenStarts[i], GivenStops[i]), Holds)

\* C16: for a non-nullable List with pairwise disjoint slots, filter gives a
\* list with as many slots, slot i referencing, in order, exactly the
\* positions j of the content with starts[i] <= j < stops[i] of whose
\* element the predicate holds.
C16_FilterSlots ==
  (/\ call.op = "filter"
   /\ data.top
   /\ ~heap[2].nullable
   /\ Len(GivenStarts) > 0
   /\ DisjointSlots) =>
    /\ call.status = "ok"
    /\ LET starts == source.new[attrs[2].starts]
           stops  == source.new[attrs[2].stops]
           pointers == source.new[attrs[call.field].positions]
       IN /\ Len(starts) = Len(GivenStarts)
          /\ Len(stops) = Len(GivenStarts)
          /\ \A i \in DOMAIN GivenStarts :
               Slice(pointers, starts[i], stops[i]) = Passing(i)

(***************************************************************************)
(* filter applied to what filter gives: a List(Pointer(X)) whose slots     *)
(* follow each other from 0 (starts = offsets[:-1], stops = offsets[1:],   *)
(* offsets[0] = 0) and whose positions buffer ends with the last slot.     *)
(***************************************************************************)
\* offsets[0] = 0 <= offsets[1] <= ... of n slots
OffsetSeqs(n) ==
  {o \in [1 .. (n + 1) -> 0 .. MaxItems] :
     o[1] = 0 /\ \A k \in 1 .. n : o[k] <= o[k + 1]}

FilteredArrays(offsets, positions) ==
  (OldName(3, "starts") :> SubSeq(offsets, 1, Len(offsets) - 1))
    @@ (OldName(3, "stops") :> SubSeq(offsets, 2, Len(offsets)))
    @@ (OldName(2, "positions") :> positions)
    @@ (OldName(1, "data") :> XData)

InitRefilter ==
  /\ \E n \in 1 .. MaxSlots, top, nullable \in BOOLEAN :
       \E offsets \in OffsetSeqs(n) :
         \E positions \in [1 .. offsets[n + 1] -> 0 .. (MaxItems - 1)] :
           /\ (~top \/ nullable) => n = 1
           /\ heap = << Node("Primitive", FALSE, <<>>),
                        Node("Pointer", nullable, <<1>>),
                        Node("List", FALSE, <<2>>) >>
           /\ data = [root |-> 3, nodes |-> <<3>>, top |-> top,
                      arrays |-> FilteredArrays(offsets, positions)]
  /\ attrs = NamedAttrs(heap)
  /\ ncalls = 0
  /\ call = NoCall
  /\ source = NoSource
  /\ NoCombine

SpecRefilter == InitRefilter /\ [][NextFilter]_vars

GivenPositions == data.arrays[OldName(2, "positions")]

\* the given positions whose element the predicate holds of
Surviving(positions) ==
  LET Holds(v) == At(XData, v) \in call.fcn
  IN SelectSeq(positions, Holds)

\* C17: filter applied to the List(Pointer(X)) an earlier filter gave gives
\* a List(Pointer(X)) again, not List(Pointer(Pointer(X))), and its
\* positions are old_positions[k] for the surviving k, in order and slot by
\* slot.
C17_FilterComposes ==
  (call.op = "filter" /\ data.top /\ heap[2] = Node("Pointer", FALSE, <<1>>)
     /\ data.root = 3) =>
    /\ call.status = "ok"
    /\ heap[3] = Node("List", FALSE, <<call.field>>)
    /\ heap[call.field] = Node("Pointer", FALSE, <<1>>)
    /\ heap[1].kind = "Primitive"
    /\ LET starts == source.new[attrs[3].starts]
           stops  == source.new[attrs[3].stops]
           pointers == source.new[attrs[call.field].positions]
       IN /\ Len(starts) = Len(GivenStarts)
          /\ Len(stops) = Len(GivenStarts)
          /\ pointers = Surviving(GivenPositions)
          /\ \A i \in DOMAIN GivenStarts :
               Slice(pointers, starts[i], stops[i]) =
                 Surviving(Slice(GivenPositions, GivenStarts[i], GivenStops[i]))

\* a filter of two slots that drops some elements and keeps others, the
\* kept positions differing from where they stood
C17_Witness ==
  /\ call.op = "filter" /\ data.top /\ heap[2] = Node("Pointer", FALSE, <<1>>)
  /\ data.root = 3
  /\ call.status = "ok"
  /\ Len(GivenStarts) = 2
  /\ LET pointers == source.new[attrs[call.field].positions]
     IN /\ 0 < Len(pointers) /\ Len(pointers) < Len(GivenPositions)
        /\ \E k \in DOMAIN pointers : pointers[k] # k - 1

(***************************************************************************)
(* map with a function whose return type is not known beforehand: the      *)
(* function is a table from the elements to a number or to None.           *)
(***************************************************************************)
\* None, as the result of fcn
NoResult == -1

Results == {7, 8}

NoOut == [none |-> TRUE, arr |-> <<>>]

\* the elements of the view, as "for datum in view" gives them
ViewItems(h, at, d, listnode, ss) ==
  [k \in 1 .. ViewLen(ss) |-> ViewItem(h, at, d, listnode, ss, k - 1).val]

\* viewindex after the first loop: one past the first element whose result
\* is not None, len(view) if there is none
ViewIndex(items, fcn) ==
  LET hits == {k \in DOMAIN items : fcn[items[k]] # NoResult}
  IN IF hits = {} THEN Len(items) ELSE SetMin(hits)

\* out[numitems] = tmp for the tmp that are not None
Kept(items, fcn) ==
  LET NotNone(x) == fcn[x] # NoResult
  IN [k \in DOMAIN SelectSeq(items, NotNone) |-> fcn[SelectSeq(items, NotNone)[k]]]

\* map(data, fcn, at=...)
Map(h, at, d, fcn) ==
  LET listnode == d.nodes[1]
  IN IF ~d.top THEN [status |-> "TypeError", out |-> NoOut]
     ELSE IF h[listnode].kind # "List" THEN [status |-> "TypeError", out |-> NoOut]
     ELSE IF h[listnode].nullable THEN [status |-> "NotImplementedError", out |-> NoOut]
     ELSE LET ss == GetStartsStops(at, d, listnode)
          IN IF Len(ss.starts) = 0 THEN [status |-> "ValueError", out |-> NoOut]
             ELSE LET items == ViewItems(h, at, d, listnode, ss)
                      viewindex == ViewIndex(items, fcn)
                  IN IF viewindex = Len(items) THEN [status |-> "ok", out |-> NoOut]
                     ELSE [status |-> "ok",
                           out |-> [none |-> FALSE,
                                    arr |-> <<fcn[items[viewindex]]>> \o
                                            Kept(SubSeq(items, viewindex + 1, Len(items)),
                                                 fcn)]]

MapCall ==
  \E fcn \in [Range(XData) -> Results \cup {NoResult}] :
    /\ Idle
    /\ LET r == Map(heap, attrs, data, fcn)
       IN call' = [op |-> "map", status |-> r.status, out |-> r.out, fcn |-> fcn]
    /\ UNCHANGED <<heap, attrs, source, ncalls, data, futures, clock, combiner>>

NextMap == MapCall

SpecMap == InitFilter /\ [][NextMap]_vars

\* the slots follow each other without a gap
AdjoiningSlots ==
  \A i \in DOMAIN GivenStarts :
    /\ GivenStarts[i] <= GivenStops[i]
    /\ i < Len(GivenStarts) => GivenStops[i] = GivenStarts[i + 1]

\* the elements of the list, in order
ListItems ==
  [k \in 1 .. (GivenStops[Len(GivenStops)] - GivenStarts[1]) |->
     At(XData, GivenStarts[1] + k - 1)]

\* C18: map with a dynamically typed fcn returns, in element order, fcn's
\* result for every element of the list whose result is not None, whichever
\* element gives the first such result, and None only when every result is
\* None.
C18_MapKeepsAll ==
  (call.op = "map" /\ data.top /\ ~heap[2].nullable
     /\ Len(GivenStarts) > 0 /\ AdjoiningSlots) =>
    /\ call.status = "ok"
    /\ call.out.none <=> (\A k \in DOMAIN ListItems : call.fcn[ListItems[k]] = NoResult)
    /\ ~call.out.none => call.out.arr = Kept(ListItems, call.fcn)

(***************************************************************************)
(* MapCombiner and ReduceCombiner.                                         *)
(*                                                                         *)
(* The futures complete in any order and at any time; the wall clock       *)
(* advances in ticks of TickLen units, the unit being the 1e-6 s below     *)
(* which result() never lets a timeout fall.  Future i returns the array   *)
(* <<i>> to a MapCombiner and the tally i to a ReduceCombiner; the sum of  *)
(* two tallies is kept as written, <<a, b>> for a + b.                     *)
(***************************************************************************)
\* max(1e-6, ...)
MinTimeout == 1

\* units of time in one tick of the clock
TickLen == 2

\* timeout=None
NoTimeout == -1

Timeouts == {NoTimeout} \cup {TickLen * k : k \in 1 .. MaxClock}

CombinerKinds == {"MapCombiner", "ReduceCombiner"}

\* self._result is None
NoResultYet == [none |-> TRUE, val |-> 0]

Max(a, b) == IF a >= b THEN a ELSE b

\* future.result() of the i-th future supplied
FutureResult(kind, i) == IF kind = "MapCombiner" THEN <<i>> ELSE i

\* a + b
Plus(a, b) == <<a, b>>

\* time.time() - starttime
Elapsed(c, clk) == TickLen * (clk - c.starttime)

WaitedOnCompleted(c, done) ==
  IF c.pos <= Len(done) THEN done[c.pos] ELSE c.pos

\* for future in self._futures: the future the loop waits on
WaitedOn(c, done) == c.pos

\* the result with one more future's result taken in
Collected(c, r) ==
  IF c.kind = "MapCombiner" THEN [none |-> FALSE, val |-> c.acc.val \o r]
  ELSE IF c.acc.none THEN [none |-> FALSE, val |-> r]
  ELSE [none |-> FALSE, val |-> Plus(c.acc.val, r)]

\* the loop, from its top to the call of future.result(timeout) it blocks
\* in, or past its end to the return
Proceed(c, clk) ==
  IF c.pos > c.n
    THEN IF c.kind = "MapCombiner" /\ c.n = 0
           \* numpy.concatenate of no arrays
           THEN [c EXCEPT !.phase = "ValueError"]
           ELSE [c EXCEPT !.phase = "returned", !.result = c.acc]
    ELSE LET timeout == IF c.timeout = NoTimeout THEN NoTimeout
                        ELSE Max(MinTimeout, c.timeout - Elapsed(c, clk))
         IN [c EXCEPT !.phase = "waiting",
                      !.timeout = timeout,
                      !.waitstart = clk,
                      !.handed = Append(@, [timeout |-> timeout,
                                            elapsed |-> Elapsed(c, clk)])]

\* MapCombiner(futures), ReduceCombiner(futures)
InitCombine ==
  /\ heap = <<>>
  /\ ncalls = 0
  /\ call = NoCall
  /\ source = NoSource
  /\ attrs = <<>>
  /\ data = NoData
  /\ clock = 0
  /\ \E n \in 0 .. MaxFutures : futures = [done |-> <<>>, n |-> n]
  /\ \E kind \in CombinerKinds :
       combiner = [phase |-> "created", kind |-> kind, n |-> futures.n,
                   result |-> NoResultYet, cached |-> FALSE]

\* a future completes
FutureDone ==
  \E i \in 1 .. futures.n :
    /\ \A k \in DOMAIN futures.done : futures.done[k] # i
    /\ futures' = [futures EXCEPT !.done = Append(@, i)]
    /\ UNCHANGED <<heap, ncalls, call, source, attrs, data, clock, combiner>>

\* time passes
Tick ==
  /\ clock < MaxClock
  /\ clock' = clock + 1
  /\ UNCHANGED <<heap, ncalls, call, source, attrs, data, futures, combiner>>

\* result(timeout), self._result being None
ResultCall ==
  \E timeout \in Timeouts :
    /\ combiner.phase = "created"
    /\ combiner' =
         Proceed([phase |-> "loop", kind |-> combiner.kind, n |-> combiner.n,
                  result |-> NoResultYet, cached |-> FALSE,
                  given |-> timeout, timeout |-> timeout,
                  starttime |-> clock, waitstart |-> clock, pos |-> 1,
                  acc |-> IF combiner.kind = "MapCombiner"
                            THEN [none |-> FALSE, val |-> <<>>]
                            ELSE NoResultYet,
                  handed |-> <<>>], clock)
    /\ UNCHANGED <<heap, ncalls, call, source, attrs, data, futures, clock>>

\* future.result(timeout) returns, and the loop goes on
Receive ==
  /\ combiner.phase = "waiting"
  /\ LET i == WaitedOn(combiner, futures.done)
     IN /\ \E k \in DOMAIN futures.done : futures.done[k] = i
        /\ combiner' =
             Proceed([combiner EXCEPT
                        !.acc = Collected(combiner, FutureResult(combiner.kind, i)),
                        !.pos = @ + 1], clock)
  /\ UNCHANGED <<heap, ncalls, call, source, attrs, data, futures, clock>>

\* future.result(timeout) raises TimeoutError
TimedOut ==
  /\ combiner.phase = "waiting"
  /\ combiner.timeout # NoTimeout
  /\ \A k \in DOMAIN futures.done : futures.done[k] # WaitedOn(combiner, futures.done)
  /\ TickLen * (clock - combiner.waitstart) >= combiner.timeout
  /\ combiner' = [combiner EXCEPT !.phase = "TimeoutError"]
  /\ UNCHANGED <<heap, ncalls, call, source, attrs, data, futures, clock>>

\* result(timeout), self._result being set
ResultCached ==
  /\ combiner.phase = "returned"
  /\ ~combiner.result.none
  /\ ~combiner.cached
  /\ combiner' = [combiner EXCEPT !.cached = TRUE]
  /\ UNCHANGED <<heap, ncalls, call, source, attrs, data, futures, clock>>

NextCombine ==
  \/ FutureDone
  \/ Tick
  \/ ResultCall
  \/ Receive
  \/ TimedOut
  \/ ResultCached

SpecCombine == InitCombine /\ [][NextCombine]_vars

RECURSIVE Concatenated(_)
\* the arrays of the first n futures supplied, one after the other
Concatenated(n) == IF n = 0 THEN <<>> ELSE Concatenated(n - 1) \o <<n>>

RECURSIVE LeftFold(_)
\* ((1 + 2) + 3) + ...
LeftFold(n) == IF n = 1 THEN 1 ELSE Plus(LeftFold(n - 1), n)

\* C19: what result() returns is the futures' results concatenated
\* (MapCombiner) or folded from the left (ReduceCombiner) in the order the
\* futures were supplied in, whatever the order they completed in.
C19_SupplyOrder ==
  (combiner.phase = "returned" /\ combiner.n > 0) =>
    /\ ~combiner.result.none
    /\ combiner.kind = "MapCombiner" =>
         combiner.result.val = Concatenated(combiner.n)
    /\ combiner.kind = "ReduceCombiner" =>
         combiner.result.val = LeftFold(combiner.n)

\* three futures that completed last first, and a result returned
C19_Witness ==
  /\ combiner.phase = "returned"
  /\ combiner.n = 3
  /\ futures.done = <<3, 2, 1>>

\* C20: the timeout handed to each future's result() is the timeout result()
\* was given less the time elapsed since result() was entered, and not less
\* than the minimum.
C20_TimeoutBudget ==
  (combiner.phase \notin {"none", "created"} /\ combiner.given # NoTimeout) =>
    \A k \in DOMAIN combiner.handed :
      combiner.handed[k].timeout =
        Max(MinTimeout, combiner.given - combiner.handed[k].elapsed)

(***************************************************************************)
(* The recastings fieldname, split and merge.                              *)
(*                                                                         *)
(* Each works on the copy of the schema namedschema() gives, a tree whose  *)
(* nodes carry their buffer names: a Record is its OrderedDict of fields,  *)
(* a sequence of [name, node].  A place in the tree is the sequence of the *)
(* field names leading to it, with Content for the step into a List.       *)
(* schema.path and the deletion of a field are not among the sources: a    *)
(* path names fields from the root, passing through Lists, and del         *)
(* removes the field of that name.                                         *)
(***************************************************************************)
Content == "*"

PrimitiveNode(name) == [kind |-> "Primitive", nullable |-> FALSE, data |-> name]

ListNode(content, nullable, namespace, starts, stops) ==
  [kind |-> "List", nullable |-> nullable, namespace |-> namespace,
   starts |-> starts, stops |-> stops, content |-> content]

RecordNode(fields, nullable) ==
  [kind |-> "Record", nullable |-> nullable, fields |-> fields]

FieldNames(rec) == {rec.fields[k].name : k \in DOMAIN rec.fields}

FieldIndex(rec, name) == CHOOSE k \in DOMAIN rec.fields : rec.fields[k].name = name

\* rec[name]
GetItem(rec, name) == rec.fields[FieldIndex(rec, name)].node

\* rec[name] = node: in place when the key is there, at the end otherwise
SetItem(rec, name, node) ==
  IF name \in FieldNames(rec)
    THEN [rec EXCEPT !.fields[FieldIndex(rec, name)].node = node]
    ELSE [rec EXCEPT !.fields = Append(@, [name |-> name, node |-> node])]

\* del rec[name]
DelItem(rec, name) ==
  LET Other(f) == f.name # name
  IN [rec EXCEPT !.fields = SelectSeq(@, Other)]

RECURSIVE NodeAt(_, _)
\* the node at a place
NodeAt(schema, loc) ==
  IF loc = <<>> THEN schema
  ELSE IF loc[1] = Content THEN NodeAt(schema.content, Tail(loc))
  ELSE NodeAt(GetItem(schema, loc[1]), Tail(loc))

RECURSIVE Replaced(_, _, _)
\* the tree with the node at a place replaced
Replaced(schema, loc, node) ==
  IF loc = <<>> THEN node
  ELSE IF loc[1] = Content
    THEN [schema EXCEPT !.content = Replaced(schema.content, Tail(loc), node)]
  ELSE SetItem(schema, loc[1], Replaced(GetItem(schema, loc[1]), Tail(loc), node))

RECURSIVE ThroughLists(_, _)
\* while isinstance(nodes[0], List): nodes = (nodes[0].content,) + nodes
ThroughLists(schema, loc) ==
  IF NodeAt(schema, loc).kind = "List"
    THEN ThroughLists(schema, Append(loc, Content)) ELSE loc

NoPlace == <<"?">>

RECURSIVE PathFrom(_, _, _)
\* schema.path(path, parents=True): the place the path leads to
PathFrom(schema, loc, path) ==
  IF path = <<>> THEN loc
  ELSE LET here == ThroughLists(schema, loc)
           node == NodeAt(schema, here)
       IN IF node.kind = "Record" /\ path[1] \in FieldNames(node)
            THEN PathFrom(schema, Append(here, path[1]), Tail(path))
            ELSE NoPlace

Path(schema, path) == PathFrom(schema, <<>>, path)

Front(loc, n) == SubSeq(loc, 1, Len(loc) - n)

RECURSIVE Compiles(_)
\* schema(data._arrays): a Record without fields does not compile
Compiles(schema) ==
  IF schema.kind = "Record"
    THEN /\ Len(schema.fields) > 0
         /\ \A k \in DOMAIN schema.fields : Compiles(schema.fields[k].node)
  ELSE IF schema.kind = "List" THEN Compiles(schema.content)
  ELSE TRUE

Returned(schema) ==
  IF Compiles(schema) THEN [status |-> "ok", schema |-> schema]
  ELSE [status |-> "TypeError", schema |-> schema]

Failed(status, schema) == [status |-> status, schema |-> schema]

\* fieldname(data, newname, at)
Fieldname(schema, newname, at) ==
  LET loc == Path(schema, at)
  IN IF loc = NoPlace THEN Failed("ValueError", schema)
     ELSE IF Len(loc) < 1 THEN Failed("TypeError", schema)
     ELSE LET parent  == Front(loc, 1)
              oldname == loc[Len(loc)]
              record  == NodeAt(schema, parent)
          IN Returned(Replaced(schema, parent,
                               SetItem(DelItem(record, oldname), newname,
                                       GetItem(record, oldname))))

\* split(data, path)
Split(schema, path) ==
  LET loc == Path(schema, path)
  IN IF loc = NoPlace THEN Failed("TypeError", schema)
     ELSE IF Len(loc) < 3 THEN Failed("TypeError", schema)
     ELSE LET innername == loc[Len(loc)]
              innerloc  == Front(loc, 1)
              listloc   == Front(loc, 2)
              outername == listloc[Len(listloc)]
              outerloc  == Front(loc, 3)
              datanode  == NodeAt(schema, loc)
              innernode == DelItem(NodeAt(schema, innerloc), innername)
              listnode  == NodeAt(schema, listloc)
              outernode == NodeAt(schema, outerloc)
          IN IF \/ loc[Len(loc) - 1] # Content
                \/ outername = Content
                \/ outernode.kind # "Record"
               THEN Failed("TypeError", schema)
             ELSE LET kept == IF Len(innernode.fields) = 0
                                THEN DelItem(outernode, outername)
                                ELSE SetItem(outernode, outername,
                                             [listnode EXCEPT !.content = innernode])
                  IN Returned(Replaced(schema, outerloc,
                                SetItem(kept, innername,
                                        [listnode EXCEPT !.content = datanode])))

NoName3 == [namespace |-> "", starts |-> 0, stops |-> 0]

NamesOf(listnode) ==
  [namespace |-> listnode.namespace, starts |-> listnode.starts,
   stops |-> listnode.stops]

SameNamesUnchecked(listnodes) == TRUE

\* all(x.namespace == listnodes[0].namespace and x.starts == listnodes[0].starts
\*     and x.stops == listnodes[0].stops for x in listnodes[1:])
SameNames(listnodes) ==
  \A k \in DOMAIN listnodes : listnodes[k] = listnodes[1]

RECURSIVE MergePaths(_, _, _, _, _)
\* for path in paths: ... del outernode[outername];
\*                        containerrecord[outername] = listnode.content
MergePaths(st, paths, recordloc, parentloc, k) ==
  IF st.status # "ok" \/ k > Len(paths) THEN st
  ELSE LET loc == Path(st.schema, paths[k])
       IN IF loc = NoPlace THEN MergePaths(st, paths, recordloc, parentloc, k + 1)
          ELSE IF \/ Len(loc) < 1
                  \/ NodeAt(st.schema, loc).kind # "List"
                  \/ Front(loc, 1) # parentloc
            THEN [st EXCEPT !.status = "TypeError"]
          ELSE LET listnode  == NodeAt(st.schema, loc)
                   outername == loc[Len(loc)]
                   deleted   == Replaced(st.schema, parentloc,
                                  DelItem(NodeAt(st.schema, parentloc), outername))
                   \* the container itself is taken out of the schema when
                   \* a path names it, and what it is given then shows nowhere
                   detached  == st.detached \/ loc = Front(recordloc, 1)
                   moved     == IF detached THEN deleted
                                ELSE Replaced(deleted, recordloc,
                                       SetItem(NodeAt(deleted, recordloc), outername,
                                               listnode.content))
               IN MergePaths([st EXCEPT !.schema = moved,
                                        !.detached = detached,
                                        !.listnodes = Append(@, NamesOf(listnode))],
                             paths, recordloc, parentloc, k + 1)

\* merge(data, container, *paths), container a field name without a slash
Merge(schema, container, paths) ==
  LET found == Path(schema, <<container>>)
      constructed == found = NoPlace
      \* nodes = (schema,); while isinstance(nodes[0], List): ...
      top == ThroughLists(schema, <<>>)
  IN IF constructed /\ NodeAt(schema, top).kind # "Record"
       THEN Failed("TypeError", schema)
     ELSE LET made == IF constructed
                        THEN Replaced(schema, top,
                               SetItem(NodeAt(schema, top), container,
                                       ListNode(RecordNode(<<>>, FALSE), FALSE,
                                                NoName3.namespace, NoName3.starts,
                                                NoName3.stops)))
                        ELSE schema
              recordloc == IF constructed THEN top \o <<container, Content>>
                           ELSE ThroughLists(schema, found)
          IN IF \/ Len(recordloc) < 1
                \/ NodeAt(made, recordloc).kind # "Record"
                \/ recordloc[Len(recordloc)] # Content
               THEN Failed("TypeError", schema)
             ELSE LET listloc   == Front(recordloc, 1)
                      parentloc == Front(recordloc, 2)
                      st == MergePaths(
                              [status |-> "ok", schema |-> made, detached |-> FALSE,
                               listnodes |-> IF constructed THEN <<>>
                                             ELSE <<NamesOf(NodeAt(made, listloc))>>],
                              paths, recordloc, parentloc, 1)
                  IN IF st.status # "ok" THEN Failed(st.status, schema)
                     ELSE IF Len(st.listnodes) = 0 THEN Failed("TypeError", schema)
                     ELSE IF ~SameNames(st.listnodes) THEN Failed("ValueError", schema)
                     ELSE IF constructed /\ ~st.detached
                       THEN Returned(Replaced(st.schema, listloc,
                              [NodeAt(st.schema, listloc) EXCEPT
                                 !.namespace = st.listnodes[1].namespace,
                                 !.starts = st.listnodes[1].starts,
                                 !.stops = st.listnodes[1].stops]))
                     ELSE Returned(st.schema)

\* the fields a record is written with
Field(name, node) == [name |-> name, node |-> node]

\* the buffer names of the list f, and those of a list of other offsets
NamesF == [namespace |-> "", starts |-> 1, stops |-> 2]

NamesG == [namespace |-> "", starts |-> 3, stops |-> 4]

InnerFields ==
  { <<Field("a", PrimitiveNode(5))>>,
    <<Field("a", PrimitiveNode(5)), Field("b", PrimitiveNode(6))>>,
    <<Field("b", PrimitiveNode(6)), Field("a", PrimitiveNode(5))>> }

\* Record{f: List(Record{a, ...})}, alone or beside a list g of primitives
\* with the offsets of f or with others
Schemas ==
  LET F(fields, listnullable, recnullable) ==
        Field("f", ListNode(RecordNode(fields, recnullable), listnullable,
                            NamesF.namespace, NamesF.starts, NamesF.stops))
      G(names) ==
        Field("g", ListNode(PrimitiveNode(7), FALSE,
                            names.namespace, names.starts, names.stops))
  IN UNION {
       {RecordNode(<<F(fields, ln, rn)>>, FALSE)}
         \cup {RecordNode(<<F(fields, ln, rn), G(names)>>, FALSE) :
                 names \in {NamesF, NamesG}}
       : fields \in InnerFields, ln \in BOOLEAN, rn \in BOOLEAN }

PathNames == {"a", "b", "f", "g"}

Paths == {<<x>> : x \in PathNames} \cup {<<"f", x>> : x \in {"a", "b"}}

NoSchema == [kind |-> "none"]

InitRecast ==
  /\ heap = <<>>
  /\ ncalls = 0
  /\ call = NoCall
  /\ source = NoSource
  /\ attrs = <<>>
  /\ \E schema \in Schemas : data = [schema |-> schema, given |-> schema,
                                     before |-> NoSchema, steps |-> <<>>]
  /\ NoCombine

\* one recasting of the schema at hand; the next one works on what it
\* returned
Recast(step, out) ==
  /\ ncalls < MaxRecasts
  /\ ncalls' = ncalls + 1
  /\ call' = [op |-> step.op, status |-> out.status]
  /\ data' = [data EXCEPT
                !.schema = IF out.status = "ok" THEN out.schema ELSE @,
                !.before = data.schema,
                !.steps = Append(@, [step EXCEPT !.status = out.status])]
  /\ UNCHANGED <<heap, source, attrs, futures, clock, combiner>>

FieldnameCall ==
  \E at \in Paths, newname \in {"b", "g"} :
    Recast([op |-> "fieldname", at |-> at, newname |-> newname, status |-> ""],
           Fieldname(data.schema, newname, at))

SplitCall ==
  \E path \in Paths :
    Recast([op |-> "split", path |-> path, status |-> ""],
           Split(data.schema, path))

MergeCall ==
  \E container \in {"f", "g"}, paths \in {<<<<x>>>> : x \in PathNames}
                                    \cup {<<<<"a">>, <<"g">>>>} :
    Recast([op |-> "merge", container |-> container, paths |-> paths,
            status |-> ""],
           Merge(data.schema, container, paths))

NextRecast ==
  \/ FieldnameCall
  \/ SplitCall
  \/ MergeCall

SpecRecast == InitRecast /\ [][NextRecast]_vars

RECURSIVE SameSchema(_, _)
\* a == b for trees: a Record's fields are compared as a set of names
SameSchema(a, b) ==
  /\ a.kind = b.kind
  /\ a.nullable = b.nullable
  /\ a.kind = "Primitive" => a.data = b.data
  /\ a.kind = "List" =>
       /\ NamesOf(a) = NamesOf(b)
       /\ SameSchema(a.content, b.content)
  /\ a.kind = "Record" =>
       /\ FieldNames(a) = FieldNames(b)
       /\ \A n \in FieldNames(a) : SameSchema(GetItem(a, n), GetItem(b, n))

\* split(S, f/a) and then merge(container f, path a), both without error
SplitThenMerge ==
  /\ Len(data.steps) = 2
  /\ data.steps[1].op = "split" /\ data.steps[1].path = <<"f", "a">>
  /\ data.steps[1].status = "ok"
  /\ data.steps[2].op = "merge" /\ data.steps[2].container = "f"
  /\ data.steps[2].paths = <<<<"a">>>>

\* C21: for S = Record{f: List(Record{a, ...})}, merge(split(S, f/a),
\* container f, path a) returns a schema equal to S, the list f with the
\* buffer names it has in S, whether or not a was the only field of the
\* inner record.
C21_SplitMergeInverse ==
  SplitThenMerge =>
    /\ call.status = "ok"
    /\ SameSchema(data.schema, data.given)
    /\ "f" \in FieldNames(data.schema)
    /\ NamesOf(GetItem(data.schema, "f")) = NamesF

\* the last recasting, a merge
LastMerge ==
  /\ Len(data.steps) > 0
  /\ data.steps[Len(data.steps)].op = "merge"

\* the buffer names of the List fields the paths of the last merge name in
\* the schema it was given, and of the container list if there is one
MergedLists ==
  LET step == data.steps[Len(data.steps)]
      Named(path) == /\ Path(data.before, path) # NoPlace
                     /\ NodeAt(data.before, Path(data.before, path)).kind = "List"
  IN {NamesOf(NodeAt(data.before, Path(data.before, step.paths[k]))) :
        k \in {i \in DOMAIN step.paths : Named(step.paths[i])}}
     \cup {NamesOf(NodeAt(data.before, Path(data.before, <<c>>))) :
             c \in {x \in {step.container} : Named(<<x>>)}}

\* C22: merge raises and returns nothing whenever the lists named by paths,
\* and the container list when there is one, do not all have the same
\* namespace, starts name and stops name.
C22_MergeRejectsNames ==
  (LastMerge /\ Cardinality(MergedLists) > 1) =>
    /\ call.status # "ok"
    /\ data.schema = data.before

\* a merge of two lists of different buffer names, rejected for that
C22_Witness ==
  /\ LastMerge
  /\ Cardinality(MergedLists) > 1
  /\ call.status = "ValueError"

\* the last recasting, a fieldname that returned
LastFieldname ==
  /\ Len(data.steps) > 0
  /\ data.steps[Len(data.steps)].op = "fieldname"
  /\ call.status = "ok"

\* C29: after fieldname returns, the parent record has as many fields as
\* before, and every sibling of the renamed field is there under its old
\* name with its old type.
C29_RenameKeepsSiblings ==
  LastFieldname =>
    LET loc    == Path(data.before, data.steps[Len(data.steps)].at)
        parent == Front(loc, 1)
        old    == NodeAt(data.before, parent)
        new    == NodeAt(data.schema, parent)
    IN /\ Len(new.fields) = Len(old.fields)
       /\ \A n \in FieldNames(old) \ {loc[Len(loc)]} :
            /\ n \in FieldNames(new)
            /\ GetItem(new, n) = GetItem(old, n)

(***************************************************************************)
(* Dataset: a schema with the naming of its arrays, an optional            *)
(* Partitioning and descriptive attributes.  An attribute value is None, a *)
(* string (the sequence of its characters), a schema object, a             *)
(* Partitioning, a dict, or a value of some other type.  A call returns    *)
(* its status and the Dataset as the call leaves it.                       *)
(***************************************************************************)
None == [t |-> "None"]

Str(s) == [t |-> "str", v |-> s]

SchemaValue(id) == [t |-> "Schema", id |-> id]

Dict == [t |-> "dict"]

\* a value that is neither None, a string, a Schema, a Partitioning nor a
\* dict
Other == [t |-> "int"]

Done(d) == [status |-> "ok", d |-> d]

Refused(error, d) == [status |-> error, d |-> d]

\* the next statement of a method: not reached after an exception
Then(r, F(_)) ==
  CHOOSE out \in {IF x.status = "ok" THEN F(x.d) ELSE x : x \in {r}} : TRUE

\* PrefixSuffixPartitioning(offsets, delimiter), of class Prefix- or
\* SuffixPartitioning
PrefixSuffixPartitioning(class, offsets, delimiter) ==
  IF ~(delimiter.t = "str") \/ BadDelimiterMatch(delimiter.v)
    THEN Refused("ValueError", None)
    ELSE Done([t |-> "Partitioning", class |-> class, offsets |-> offsets,
               delimiter |-> delimiter])

\* Partitioning.tojson with PrefixSuffixPartitioning._tojsonargs
PartitioningToJson(p) ==
  [class |-> p.class,
   args  |-> IF p.delimiter # Str(DefaultDelimiter)
               THEN <<p.offsets, p.delimiter>> ELSE <<p.offsets>>]

\* Partitioning.fromjson: cls(*args)
PartitioningFromJson(j) ==
  PrefixSuffixPartitioning(j.class, j.args[1],
                           IF Len(j.args) > 1 THEN j.args[2]
                           ELSE Str(DefaultDelimiter))

\* isinstance(schema, List) and not schema.nullable
NonNullableList(h, id) == h[id].kind = "List" /\ ~h[id].nullable

\* Dataset.prefix = value
SetPrefix(d, value) ==
  IF ~(value = None \/ value.t = "str") THEN Refused("TypeError", d)
  ELSE Done([d EXCEPT !.prefix = value])

\* Dataset.delimiter = value
SetDelimiter(d, value) ==
  IF value # None /\ ~(value.t = "str" /\ BadDelimiterMatch(value.v))
    THEN Refused("ValueError", d)
    ELSE Done([d EXCEPT !.delimiter = value])

\* Dataset.extension = value (a list of module names is not drawn)
SetExtension(d, value) ==
  IF value = None \/ value.t = "str" THEN Done([d EXCEPT !.extension = value])
  ELSE Refused("ValueError", d)

\* mutant: the schema is stored whatever the partitioning
SetSchemaUnguarded(h, d, value) ==
  IF value.t # "Schema" THEN Refused("TypeError", d)
  ELSE Done([d EXCEPT !.schema = value.id])

\* Dataset.schema = value
SetSchema(h, d, value) ==
  IF value.t # "Schema" THEN Refused("TypeError", d)
  ELSE IF d.partitioning # None /\ ~NonNullableList(h, value.id)
    THEN Refused("TypeError", d)
  ELSE Done([d EXCEPT !.schema = value.id])

\* Dataset.partitioning = value
SetPartitioning(h, d, value) ==
  IF ~(value = None \/ value.t = "Partitioning") THEN Refused("TypeError", d)
  ELSE IF value # None /\ ~NonNullableList(h, d.schema)
    THEN Refused("TypeError", d)
  ELSE Done([d EXCEPT !.partitioning = value])

\* Dataset.packing = value
SetPacking(d, value) ==
  IF value # None THEN Refused("TypeError", d)
  ELSE Done([d EXCEPT !.packing = value])

\* Dataset.name = value
SetName(d, value) ==
  IF ~(value = None \/ value.t = "str") THEN Refused("TypeError", d)
  ELSE Done([d EXCEPT !.name = value])

\* Dataset.doc = value
SetDoc(d, value) ==
  IF ~(value = None \/ value.t = "str") THEN Refused("TypeError", d)
  ELSE Done([d EXCEPT !.doc = value])

\* Dataset.metadata = value
SetMetadata(d, value) ==
  IF value # None /\ ~(value.t = "dict") THEN Refused("TypeError", d)
  ELSE Done([d EXCEPT !.metadata = value])

\* the object before __init__ has run, but for _partitioning = None
Blank ==
  [schema |-> NoneId, prefix |-> None, delimiter |-> None, extension |-> None,
   partitioning |-> None, packing |-> None, name |-> None, doc |-> None,
   metadata |-> None]

\* the arguments of the constructor
Args(schema, prefix, delimiter, extension, partitioning, packing, name, doc,
     metadata) ==
  [schema |-> schema, prefix |-> prefix, delimiter |-> delimiter,
   extension |-> extension, partitioning |-> partitioning, packing |-> packing,
   name |-> name, doc |-> doc, metadata |-> metadata]

\* Dataset.__init__
DatasetNew(h, a) ==
  LET s1 == SetSchema(h, Blank, a.schema)
      s2 == Then(s1, LAMBDA d : SetPrefix(d, a.prefix))
      s3 == Then(s2, LAMBDA d : SetDelimiter(d, a.delimiter))
      s4 == Then(s3, LAMBDA d : SetExtension(d, a.extension))
      s5 == Then(s4, LAMBDA d : SetPartitioning(h, d, a.partitioning))
      s6 == Then(s5, LAMBDA d : SetPacking(d, a.packing))
      s7 == Then(s6, LAMBDA d : SetName(d, a.name))
      s8 == Then(s7, LAMBDA d : SetDoc(d, a.doc))
  IN Then(s8, LAMBDA d : SetMetadata(d, a.metadata))

\* the keys Dataset.tojson writes when their attribute is not None
OptionalKeys ==
  {"prefix", "delimiter", "extension", "partitioning", "packing", "name",
   "doc", "metadata"}

\* Dataset.tojson with explicit=False
DatasetToJson(h, d) ==
  LET s    == ToJson(h, d.schema)
      keys == {"schema"} \cup {k \in OptionalKeys : d[k] # None}
  IN IF s.status # "ok" THEN [status |-> s.status, json |-> <<>>]
     ELSE [status |-> "ok",
           json |-> [k \in keys |->
                       CASE k = "schema"       -> s.json
                         [] k = "partitioning" -> PartitioningToJson(d[k])
                         [] OTHER              -> d[k]]]

\* data.get(key, None)
Get(json, key) == IF key \in DOMAIN json THEN json[key] ELSE None

\* Dataset.fromjson: the name is looked up under the key "data", and the
\* extension read from the document is not handed to the constructor
DatasetFromJson(h, json) ==
  LET schema == FromJson(h, json["schema"])
      part   == IF Get(json, "partitioning") = None THEN Done(None)
                ELSE PartitioningFromJson(json["partitioning"])
  IN IF schema.status # "ok" THEN [status |-> schema.status, d |-> Blank, heap |-> h]
     ELSE IF part.status # "ok" THEN [status |-> part.status, d |-> Blank, heap |-> h]
     ELSE LET out == DatasetNew(schema.heap,
                       Args(SchemaValue(schema.root), Get(json, "prefix"),
                            Get(json, "delimiter"), None, part.d, None,
                            Get(json, "data"), Get(json, "doc"),
                            Get(json, "metadata")))
          IN [status |-> out.status, d |-> out.d, heap |-> schema.heap]

\* the schemas at hand: a Primitive, a List of it, a nullable List of it and
\* a Record of it
DatasetHeap ==
  << Node("Primitive", FALSE, <<>>), Node("List", FALSE, <<1>>),
     Node("List", TRUE, <<1>>), Node("Record", FALSE, <<1>>) >>

SchemaValues == {SchemaValue(id) : id \in Ids(DatasetHeap)} \cup {None}

Offsets == <<0, 2>>

PartitioningValues ==
  {None, Other,
   PrefixSuffixPartitioning("PrefixPartitioning", Offsets, Str(<<"-">>)).d,
   PrefixSuffixPartitioning("SuffixPartitioning", Offsets, Str(<<"/">>)).d}

DelimiterValues == {None, Other} \cup {Str(s) : s \in Strings(MaxDelimLen)}

Texts == {None, Str(<<"a">>)}

NoDataset == [made |-> FALSE, d |-> Blank]

InitDataset ==
  /\ heap = DatasetHeap
  /\ ncalls = 0
  /\ call = NoCall
  /\ source = NoSource
  /\ attrs = <<>>
  /\ data = NoDataset
  /\ NoCombine

\* Dataset(schema, ...): an exception leaves no Dataset
Construct(a) ==
  /\ ~data.made
  /\ \E out \in {DatasetNew(heap, a)} :
       /\ call' = [op |-> "Dataset", status |-> out.status, value |-> a.delimiter]
       /\ data' = IF out.status = "ok" THEN [made |-> TRUE, d |-> out.d] ELSE data
  /\ UNCHANGED <<heap, ncalls, source, attrs, futures, clock, combiner>>

\* an assignment to an attribute of the Dataset
Assign(op, value, out) ==
  /\ data.made
  /\ call' = [op |-> op, status |-> out.status, value |-> value]
  /\ data' = [data EXCEPT !.d = out.d]
  /\ UNCHANGED <<heap, ncalls, source, attrs, futures, clock, combiner>>

\* Dataset(schema, ...) with a few delimiters
NewDataset ==
  \E schema \in SchemaValues, delimiter \in {None, Str(<<"a">>), Str(<<"-">>)},
     extension \in Texts, partitioning \in PartitioningValues, name \in Texts,
     rest \in {None, Dict} :
    Construct(Args(schema, IF rest = None THEN None ELSE Str(<<"a">>),
                   delimiter, extension, partitioning, None, name,
                   IF rest = None THEN None ELSE Str(<<"a">>), rest))

SchemaAssign ==
  \E value \in SchemaValues :
    Assign("schema", value, SetSchema(heap, data.d, value))

PartitioningAssign ==
  \E value \in PartitioningValues :
    Assign("partitioning", value, SetPartitioning(heap, data.d, value))

\* Dataset.fromjson(D.tojson()); the Dataset read back is kept beside D
RoundTrip ==
  /\ data.made
  /\ \E doc \in {DatasetToJson(heap, data.d)} :
       /\ doc.status = "ok"
       /\ \E out \in {DatasetFromJson(heap, doc.json)} :
            /\ attrs' = out
            /\ call' = [op |-> "fromjson", status |-> out.status, value |-> None]
  /\ UNCHANGED <<heap, ncalls, source, data, futures, clock, combiner>>

NextDataset ==
  \/ NewDataset
  \/ SchemaAssign
  \/ PartitioningAssign
  \/ RoundTrip

SpecDataset == InitDataset /\ [][NextDataset]_vars

\* Dataset(schema, delimiter=d) on a List
NewDelimited ==
  \E delimiter \in DelimiterValues :
    Construct(Args(SchemaValue(2), None, delimiter, None, None, None, None,
                   None, None))

DelimiterAssign ==
  \E value \in DelimiterValues :
    Assign("delimiter", value, SetDelimiter(data.d, value))

NextDelimited ==
  \/ NewDelimited
  \/ DelimiterAssign

SpecDelimited == InitDataset /\ [][NextDelimited]_vars

\* a rejected assignment leaves the schema and the partitioning as they were
RejectedKeeps ==
  (call'.op \in {"schema", "partitioning"} /\ call'.status # "ok") =>
    /\ data'.d.schema = data.d.schema
    /\ data'.d.partitioning = data.d.partitioning

\* C23: after any sequence of accepted and rejected assignments to schema
\* and partitioning, the constructor included, a Dataset whose partitioning
\* is not None has a schema that is a List with nullable = False, and a
\* rejected assignment leaves both attributes as they were.
C23_PartitionedIsList ==
  /\ [](data.made /\ data.d.partitioning # None
          => NonNullableList(heap, data.d.schema))
  /\ [][RejectedKeeps]_vars

\* a partitioned Dataset that has just refused a schema that is no List
C23_Witness ==
  /\ data.made
  /\ data.d.partitioning # None
  /\ call.op = "schema"
  /\ call.status = "TypeError"
  /\ call.value.t = "Schema"

\* the value has no character of [a-zA-Z0-9_]
GoodDelimiter(value) ==
  \/ value = None
  \/ /\ value.t = "str"
     /\ \A i \in DOMAIN value.v : ~InBadClass(value.v[i])

\* C24: the constructor and the assignment to .delimiter accept None and
\* every string without a character of [a-zA-Z0-9_], and raise ValueError
\* for every other value.
C24_DatasetDelimiter ==
  call.op \in {"Dataset", "delimiter"} =>
    /\ GoodDelimiter(call.value) => call.status = "ok"
    /\ ~GoodDelimiter(call.value) => call.status = "ValueError"

\* C30: Dataset.fromjson(D.tojson()) is a Dataset with the schema, prefix,
\* delimiter, extension, partitioning, packing, name, doc and metadata of D.
C30_DatasetRoundTrip ==
  call.op = "fromjson" =>
    /\ attrs.status = "ok"
    /\ SchemaEq(attrs.heap, data.d.schema, attrs.d.schema, <<>>).res = "True"
    /\ \A k \in OptionalKeys : attrs.d[k] = data.d[k]

\* C28: schema equality distinguishes nullability for every kind of node:
\* two schemas that compare equal have roots of the same nullable flag.
C28_EqSeesNullable ==
  (IsEq /\ Legal(heap, call.a) /\ Legal(heap, call.b) /\ call.res = "True")
    => heap[call.a].nullable = heap[call.b].nullable

(***************************************************************************)
(* value in schema, __contains__ of each kind but List.  A value is a      *)
(* Python object: None, a number, an object that is none of the others, a  *)
(* tuple or a dict of further objects; the objects are numbered, so that   *)
(* the same object can stand at several places of a value.  The memo is    *)
(* the dict id(value) -> id(Pointer) that the calls share and mutate.  The *)
(* fields of a Record and the items of a dict are taken by position.       *)
(***************************************************************************)
Num == [kind |-> "num", kids |-> <<>>]

Obj == [kind |-> "obj", kids |-> <<>>]

TupleOf(kids) == [kind |-> "tuple", kids |-> kids]

DictOf(kids) == [kind |-> "dict", kids |-> kids]

RECURSIVE Contains(_, _, _, _, _)
RECURSIVE AllContain(_, _, _, _, _, _)
RECURSIVE AllFields(_, _, _, _, _, _)
RECURSIVE AnyContains(_, _, _, _, _, _)

\* all(x.__contains__(v, memo) for v, x in zip(value, self.types))
AllContain(h, o, xs, vs, i, memo) ==
  IF i > Len(xs) \/ i > Len(vs) THEN Ret("True", memo)
  ELSE LET r == Contains(h, o, xs[i], vs[i], memo)
       IN IF r.res = "True" THEN AllContain(h, o, xs, vs, i + 1, r.memo) ELSE r

\* all(n in value and x.__contains__(value[n], memo) for n, x in fields)
AllFields(h, o, xs, vs, i, memo) ==
  IF i > Len(xs) THEN Ret("True", memo)
  ELSE IF i > Len(vs) THEN Ret("False", memo)
  ELSE LET r == Contains(h, o, xs[i], vs[i], memo)
       IN IF r.res = "True" THEN AllFields(h, o, xs, vs, i + 1, r.memo) ELSE r

\* any(x.__contains__(value, memo) for x in self.possibilities)
AnyContains(h, o, xs, v, i, memo) ==
  IF i > Len(xs) THEN Ret("False", memo)
  ELSE LET r == Contains(h, o, xs[i], v, memo)
       IN IF r.res = "True" THEN r ELSE AnyContains(h, o, xs, v, i + 1, r.memo)

PrimitiveContains(h, o, s, v, memo) ==
  IF v = NoneId THEN Ret(Bool(h[s].nullable), memo)
  ELSE Ret(Bool(o[v].kind = "num"), memo)

UnionContains(h, o, s, v, memo) ==
  IF v = NoneId
    THEN Ret(Bool(h[s].nullable
                    \/ \E i \in DOMAIN h[s].kids : h[h[s].kids[i]].nullable), memo)
    ELSE AnyContains(h, o, h[s].kids, v, 1, memo)

RecordContains(h, o, s, v, memo) ==
  IF v = NoneId THEN Ret(Bool(h[s].nullable), memo)
  ELSE IF o[v].kind = "dict" THEN AllFields(h, o, h[s].kids, o[v].kids, 1, memo)
  ELSE Ret("False", memo)

TupleContains(h, o, s, v, memo) ==
  IF v = NoneId THEN Ret(Bool(h[s].nullable), memo)
  ELSE IF o[v].kind = "tuple" /\ Len(o[v].kids) = Len(h[s].kids)
    THEN AllContain(h, o, h[s].kids, o[v].kids, 1, memo)
  ELSE Ret("False", memo)

PointerContains(h, o, s, v, memo) ==
  IF v \in DOMAIN memo THEN Ret(Bool(memo[v] = s), memo)
  ELSE LET memo2 == (v :> s) @@ memo
       IN IF v = NoneId THEN Ret(Bool(h[s].nullable), memo2)
          ELSE Contains(h, o, h[s].kids[1], v, memo2)

\* x.__contains__(value, memo)
Contains(h, o, s, v, memo) ==
  CASE h[s].kind = "Primitive" -> PrimitiveContains(h, o, s, v, memo)
    [] h[s].kind = "Union"     -> UnionContains(h, o, s, v, memo)
    [] h[s].kind = "Record"    -> RecordContains(h, o, s, v, memo)
    [] h[s].kind = "Tuple"     -> TupleContains(h, o, s, v, memo)
    [] h[s].kind = "Pointer"   -> PointerContains(h, o, s, v, memo)

\* value in schema
In(h, o, s, v) == Contains(h, o, s, v, <<>>).res

\* the schemas at hand: two Primitives, two Pointers to the first, Tuples,
\* Records and Unions of them, and a chain whose link is a Pointer back to
\* the Tuple
ContainsHeap ==
  << Node("Primitive", FALSE, <<>>), Node("Primitive", FALSE, <<>>),
     Node("Pointer", FALSE, <<1>>), Node("Pointer", FALSE, <<1>>),
     Node("Tuple", FALSE, <<3, 3>>), Node("Tuple", FALSE, <<3, 4>>),
     Node("Union", FALSE, <<3, 3>>), Node("Tuple", FALSE, <<3, 2>>),
     Node("Union", FALSE, <<5, 8>>), Node("Record", FALSE, <<3>>),
     Node("Record", FALSE, <<3, 4>>), Node("Tuple", FALSE, <<1, 13>>),
     Node("Pointer", FALSE, <<12>>) >>

\* the objects at hand; 0 is None
Objects ==
  << Num, Num, Obj, TupleOf(<<1, 1>>), TupleOf(<<1, 2>>), TupleOf(<<3, 3>>),
     TupleOf(<<3, 0>>), TupleOf(<<0, 0>>), TupleOf(<<1, 3>>), DictOf(<<1>>),
     DictOf(<<1, 1>>), DictOf(<<1, 2>>), TupleOf(<<1, 0>>),
     TupleOf(<<1, 13>>) >>

InitContains ==
  /\ heap = ContainsHeap
  /\ ncalls = 0
  /\ call = NoCall
  /\ source = NoSource
  /\ attrs = <<>>
  /\ data = NoData
  /\ NoCombine

\* V in S
ContainsCall ==
  \E s \in Ids(heap), v \in {NoneId} \cup DOMAIN Objects :
    /\ Idle
    /\ call' = [op |-> "contains", s |-> s, v |-> v, res |-> In(heap, Objects, s, v)]
    /\ UNCHANGED <<heap, ncalls, source, attrs, data, futures, clock, combiner>>

NextContains == SetNullable \/ ContainsCall

SpecContains == InitContains /\ [][NextContains]_vars

RECURSIVE Conforms(_, _, _, _)
\* the structural definition: a Pointer takes what its target takes, a Tuple
\* or Record a value whose every component conforms, a Union what some
\* possibility takes; None is taken by a nullable node
Conforms(h, o, s, v) ==
  IF v = NoneId
    THEN \/ h[s].nullable
         \/ /\ h[s].kind = "Union"
            /\ \E i \in DOMAIN h[s].kids : h[h[s].kids[i]].nullable
    ELSE CASE h[s].kind = "Primitive" -> o[v].kind = "num"
           [] h[s].kind = "Pointer"   -> Conforms(h, o, h[s].kids[1], v)
           [] h[s].kind = "Union"     ->
                \E i \in DOMAIN h[s].kids : Conforms(h, o, h[s].kids[i], v)
           [] h[s].kind = "Tuple"     ->
                /\ o[v].kind = "tuple"
                /\ Len(o[v].kids) = Len(h[s].kids)
                /\ \A i \in DOMAIN h[s].kids :
                     Conforms(h, o, h[s].kids[i], o[v].kids[i])
           [] h[s].kind = "Record"    ->
                /\ o[v].kind = "dict"
                /\ Len(o[v].kids) >= Len(h[s].kids)
                /\ \A i \in DOMAIN h[s].kids :
                     Conforms(h, o, h[s].kids[i], o[v].kids[i])

\* C27: (V in S) is what the structural definition gives, whether or not the
\* same object stands at several places of V or has been tested against the
\* same Pointer in a possibility of a Union that failed.
C27_ContainsStructural ==
  call.op = "contains" =>
    call.res = Bool(Conforms(heap, Objects, call.s, call.v))

(***************************************************************************)
(* tomask on a Primitive that is nullable already, its arrays laid out as  *)
(* define fills them: mask[i] is the masked value for an element that is   *)
(* None and else the number of elements before it that are not None, the   *)
(* index of its value in the data; the data holds the values that are      *)
(* there and, up to the length of the mask, cells that were never written. *)
(***************************************************************************)
RECURSIVE CompactMask(_, _, _)
\* mask[i] = maskedvalue, or mask[i] = numitems; numitems += 1
CompactMask(present, i, numitems) ==
  IF i > Len(present) THEN <<>>
  ELSE IF present[i]
    THEN <<numitems>> \o CompactMask(present, i + 1, numitems + 1)
    ELSE <<MaskedValue>> \o CompactMask(present, i + 1, numitems)

NumPresent(present) == Cardinality({i \in DOMAIN present : present[i]})

InitCompact ==
  /\ heap = ListOfPrimitive(TRUE)
  /\ \E present \in ArraysOf(BOOLEAN) :
       \E primitive \in UNION {[1 .. n -> Numbers] :
                                 n \in NumPresent(present) .. Len(present)} :
         data = [root |-> 2, nodes |-> <<2>>,
                 arrays |-> (OldName(1, "data") :> primitive)
                              @@ (OldName(1, "mask") :> CompactMask(present, 1, 0))]
  /\ attrs = NamedAttrs(heap)
  /\ ncalls = 0
  /\ call = NoCall
  /\ source = NoSource
  /\ NoCombine

TomaskAny == \E lenient \in BOOLEAN : TomaskWith(lenient)

NextCompact == TomaskAny

SpecCompact == InitCompact /\ [][NextCompact]_vars

GivenMask == data.arrays[OldName(1, "mask")]

\* C25: on a nullable Primitive whose mask holds, for each element, the
\* masked value or the index of its value in the data, tomask(path, low)
\* leaves every masked element masked, masks every other element k with
\* data[mask[k]] = low, and leaves every other entry of the mask as it was.
C25_TomaskCompact ==
  (call.op = "tomask" /\ call.high = NoHigh) =>
    /\ call.status = "ok"
    /\ LET m == source.new[attrs[call.field].mask]
       IN /\ Len(m) = Len(GivenMask)
          /\ \A k \in DOMAIN GivenMask :
               m[k] = IF GivenMask[k] = MaskedValue
                        THEN MaskedValue
                      ELSE IF NumEq(At(GivenData, GivenMask[k]), call.low)
                        THEN MaskedValue
                      ELSE GivenMask[k]

(***************************************************************************)
(* define, applied to the field "children" of                              *)
(* Record({"children": List(Record({"x": Primitive}))}).  A record of the  *)
(* list is told by its x; fcn is the function from x to the value it       *)
(* returns, NoResult for None.                                             *)
(***************************************************************************)
\* the datum the view gives at k: the record at the k-th position of the
\* window [viewstarts[0], viewstops[-1])
ViewRecord(h, at, d, recordnode, ss, k) ==
  At(d.arrays[at[h[recordnode].kids[1]].data], At(ss.starts, 0) + k)

RECURSIVE DefineFill(_, _, _, _)
\* i = 0
\* for datum in view: primitive[i] = fcn(datum); i += 1
DefineFill(view, fcn, primitive, i) ==
  IF i >= Len(view) THEN primitive
  ELSE DefineFill(view, fcn, [primitive EXCEPT ![i + 1] = fcn[At(view, i)]], i + 1)

RECURSIVE DefineFillMasked(_, _, _)
\* for datum in view:
\*     tmp = fcn(datum)
\*     if tmp is None: mask[i] = maskedvalue
\*     else: mask[i] = numitems; primitive[numitems] = tmp; numitems += 1
\*     i += 1
DefineFillMasked(view, fcn, st) ==
  IF st.i >= Len(view) THEN st
  ELSE LET tmp == fcn[At(view, st.i)]
       IN DefineFillMasked(view, fcn,
            IF tmp = NoResult
              THEN [st EXCEPT !.mask[st.i + 1] = MaskedValue, !.i = @ + 1]
              ELSE [st EXCEPT !.mask[st.i + 1] = st.numitems,
                              !.primitive[st.numitems + 1] = tmp,
                              !.numitems = @ + 1, !.i = @ + 1])

\* define(data, fieldname, fcn, at=..., fieldtype=Primitive(.., nullable))
Define(h, at, d, fcn, nullable, junk) ==
  LET listnode   == d.nodes[1]
      recordnode == Descend(h, listnode)
  IN IF ~d.top THEN Raised(h, at, "TypeError")
     ELSE IF h[recordnode].kind # "Record" \/ h[listnode].kind # "List"
       THEN Raised(h, at, "TypeError")
     ELSE IF h[recordnode].nullable \/ h[listnode].nullable
       THEN Raised(h, at, "NotImplementedError")
     ELSE LET ss == GetStartsStops(at, d, listnode)
              \* recordnode[fieldname] = fieldtype.deepcopy()
              n   == Len(h) + 1
              h2  == [Append(h, Node("Primitive", nullable, <<>>))
                        EXCEPT ![recordnode].kids = Append(@, n)]
              at2 == [k \in 1 .. n |-> IF k = n THEN NoAttrs ELSE at[k]]
          IN \* numpy.array_equal(viewstarts[1:], viewstops[:-1])
             IF ~(SubSeq(ss.starts, 2, Len(ss.starts))
                    = SubSeq(ss.stops, 1, Len(ss.stops) - 1))
               THEN Raised(h2, at, "NotImplementedError")
             \* a view without a slot
             ELSE IF Len(ss.starts) = 0 THEN Raised(h2, at, "IndexError")
             ELSE LET len  == At(ss.stops, Len(ss.stops) - 1) - At(ss.starts, 0)
                      view == [k \in 1 .. len |->
                                 ViewRecord(h, at, d, recordnode, ss, k - 1)]
                      fill == DefineFillMasked(view, fcn,
                                [i |-> 0, numitems |-> 0,
                                 primitive |-> Empty(len, junk),
                                 mask |-> Empty(len, junk)])
                      arrays == IF nullable THEN <<fill.primitive, fill.mask>>
                                ELSE <<DefineFill(view, fcn, Empty(len, junk), 0)>>
                      Made(p) ==
                        LET g == Generator(h2, d.root, DefaultDelimiter)
                        IN [status |-> IF p.status # "ok" THEN p.status
                                       ELSE IF g.err # "" THEN g.err ELSE "ok",
                            heap |-> h2, attrs |-> p.attrs, source |-> p.source,
                            field |-> n]
                  IN \* arrays.put(recordnode[fieldname], primitive[, mask]);
                     \* schema(arrays)
                     CHOOSE out \in
                       {Made(p) : p \in {Put(DualSource(d.arrays, {}), at2, h2, n,
                                              arrays)}} : TRUE

\* the records' x: each its own value
InitDefine ==
  /\ \E listnullable, childnullable \in BOOLEAN :
       heap = ListOfRecords(listnullable, childnullable)
  /\ attrs = NamedAttrs(heap)
  /\ \E slots \in SlotSeqs, top \in BOOLEAN :
       data = [root |-> 4, nodes |-> <<3, 4>>, top |-> top,
               arrays |-> ListArrays(3, slots) @@ (OldName(1, "data") :> XData)]
  /\ ncalls = 0
  /\ call = NoCall
  /\ source = NoSource
  /\ NoCombine

DefineCall ==
  \E nullable \in BOOLEAN, junk \in UninitValues :
    \E fcn \in [Range(XData) -> IF nullable THEN Results \cup {NoResult}
                                ELSE Results] :
      /\ Idle
      /\ \E out \in {Define(heap, attrs, data, fcn, nullable, junk)} :
           /\ heap' = out.heap
           /\ attrs' = out.attrs
           /\ source' = out.source
           /\ call' = [op |-> "define", status |-> out.status, field |-> out.field,
                       fcn |-> fcn, nullable |-> nullable]
      /\ UNCHANGED <<ncalls, data, futures, clock, combiner>>

NextDefine == DefineCall

SpecDefine == InitDefine /\ [][NextDefine]_vars

RecordStarts == data.arrays[OldName(3, "starts")]

RecordStops == data.arrays[OldName(3, "stops")]

\* a root view of a list that is not nullable, its slots one after the other
DefinableList ==
  /\ data.top
  /\ ~heap[3].nullable /\ ~heap[2].nullable
  /\ Len(RecordStarts) > 0
  /\ SubSeq(RecordStarts, 2, Len(RecordStarts))
       = SubSeq(RecordStops, 1, Len(RecordStops) - 1)

\* C26: on a non-nullable List(Record) whose slots lie one after the other
\* and cover [starts[0], stops[-1]), starts[0] > 0 allowed, define attaches
\* a field whose value at every content position j of that range is
\* fcn(element at j).
C26_DefinePositions ==
  (call.op = "define" /\ ~call.nullable /\ DefinableList) =>
    /\ call.status = "ok"
    /\ LET values == source.new[attrs[call.field].data]
       IN \A j \in At(RecordStarts, 0) .. (At(RecordStops, Len(RecordStops) - 1) - 1) :
            /\ j < Len(values)
            /\ At(values, j) = call.fcn[At(XData, j)]

====
